---- MODULE Spec2Model ----
(***************************************************************************)
(* Model of the .nettrace reader: the byte cursor (BufferReader), the      *)
(* container driver and block decoders (NetTraceParser), the allocation    *)
(* aggregator, the method-profile post-pass and the flame-graph builder    *)
(* (NetTraceEditorProvider.buildFlameGraphData).                           *)
(*                                                                         *)
(* Conventions.  A Buffer is a sequence of bytes 0..255; offset o is the   *)
(* 0-based JavaScript index, so the byte at o is buf[o + 1].  A JavaScript *)
(* string is the sequence of its character codes.  A JavaScript Map is the *)
(* sequence of its [k, v] entries in insertion order.  A read operation    *)
(* returns [ok, val, off]: ok = FALSE stands for the thrown Error, off is  *)
(* the cursor offset after the call.                                       *)
(***************************************************************************)
EXTENDS Integers, Sequences, FiniteSets, TLC

VARIABLES
    pc,          \* position of the running call
    buffer,      \* NetTraceParser.buffer: the bytes handed to the constructor
    parser,      \* NetTraceParser's private fields (reader offset included)
    result,      \* the ParseResult under construction / returned
    objectCount, \* local counter of parseObjectStream
    iterStart,   \* history: reader offset at the start of the last walk iteration
    failures,    \* history: decode failures met so far, as a list of kinds
    decoded,     \* history: event headers decoded so far
    lastOp,      \* history: the input of the last aggregator / builder step
    flame        \* buildFlameGraphData: mode, tree and sample data

vars == <<pc, buffer, parser, result, objectCount, iterStart, failures, decoded, lastOp, flame>>

----------------------------------------------------------------------------
(* Generic helpers                                                         *)

Undefined == -1

Min(a, b) == IF a < b THEN a ELSE b

Pow2(n) == 2 ^ n

RECURSIVE SumSeq(_)
SumSeq(s) == IF s = <<>> THEN 0 ELSE Head(s) + SumSeq(Tail(s))

RECURSIVE Concat(_)
Concat(ss) == IF ss = <<>> THEN <<>> ELSE Head(ss) \o Concat(Tail(ss))

Reverse(s) == [i \in 1..Len(s) |-> s[Len(s) + 1 - i]]

Range(s) == {s[i] : i \in 1..Len(s)}

StartsWith(s, p) == Len(s) >= Len(p) /\ SubSeq(s, 1, Len(p)) = p

(* JavaScript Map: entries in insertion order; set() on a present key keeps *)
(* the entry's position.                                                    *)
EmptyMap == <<>>

MapHas(m, k) == \E i \in 1..Len(m) : m[i].k = k

MapIdx(m, k) == CHOOSE i \in 1..Len(m) : m[i].k = k

MapGet(m, k) == m[MapIdx(m, k)].v

MapSet(m, k, v) ==
    IF MapHas(m, k) THEN [m EXCEPT ![MapIdx(m, k)].v = v]
    ELSE Append(m, [k |-> k, v |-> v])

MapKeys(m) == [i \in 1..Len(m) |-> m[i].k]

MapValues(m) == [i \in 1..Len(m) |-> m[i].v]

MapKeySet(m) == {m[i].k : i \in 1..Len(m)}

----------------------------------------------------------------------------
(* Program constants                                                       *)

NullReference == 1
BeginObject == 4
BeginPrivateObject == 5
EndObject == 6
Blob == 14

maxObjects == 10000000
MaxBlockSize == 100000000
MinFileLength == 32

GC_ALLOCATION_TICK_EVENT_ID == 10
METHOD_LOAD_VERBOSE_EVENT_ID == 143
METHOD_JITTING_STARTED_EVENT_ID == 145
METHOD_DC_END_VERBOSE_EVENT_ID == 144

----------------------------------------------------------------------------
(* BufferReader                                                            *)

\* this.buffer[o]: undefined outside the buffer
byteAt(buf, o) == IF o >= 0 /\ o < Len(buf) THEN buf[o + 1] ELSE Undefined

remaining(buf, off) == Len(buf) - off

hasBytes(buf, off, count) == off + count <= Len(buf)

\* a value computed once and named in what follows
Bind(v, F(_)) == F(v)

Fail(off) == [ok |-> FALSE, val |-> Undefined, off |-> off]

Ok(val, off) == [ok |-> TRUE, val |-> val, off |-> off]

readByte(buf, off) ==
    IF ~hasBytes(buf, off, 1) THEN Fail(off) ELSE Ok(byteAt(buf, off), off + 1)

peekByte(buf, off) ==
    IF ~hasBytes(buf, off, 1) THEN Fail(off) ELSE Ok(byteAt(buf, off), off)

\* little-endian unsigned value of the n bytes at o
RECURSIVE LE(_, _, _)
LE(buf, o, n) == IF n = 0 THEN 0 ELSE buf[o + 1] + 256 * LE(buf, o + 1, n - 1)

\* Buffer.readXxxLE(offset) raises a RangeError when offset is negative
readInt16LE(buf, off) ==
    IF ~hasBytes(buf, off, 2) \/ off < 0 THEN Fail(off)
    ELSE LET u == LE(buf, off, 2)
         IN  Ok(IF u >= 32768 THEN u - 65536 ELSE u, off + 2)

readUInt16LE(buf, off) ==
    IF ~hasBytes(buf, off, 2) \/ off < 0 THEN Fail(off)
    ELSE Ok(LE(buf, off, 2), off + 2)

readInt32LE(buf, off) ==
    IF ~hasBytes(buf, off, 4) \/ off < 0 THEN Fail(off)
    ELSE LET lo == LE(buf, off, 3)
             b3 == buf[off + 4]
         IN  Ok((IF b3 >= 128 THEN b3 - 256 ELSE b3) * 16777216 + lo, off + 4)

readUInt32LE(buf, off) ==
    IF ~hasBytes(buf, off, 4) \/ off < 0 THEN Fail(off)
    ELSE Ok(LE(buf, off, 4), off + 4)

readInt64LE(buf, off) ==
    IF ~hasBytes(buf, off, 8) \/ off < 0 THEN Fail(off)
    ELSE Ok(LE(buf, off, 8), off + 8)

readUInt64LE(buf, off) ==
    IF ~hasBytes(buf, off, 8) \/ off < 0 THEN Fail(off)
    ELSE Ok(LE(buf, off, 8), off + 8)

\* Buffer.slice clamps its bounds; the offset moves by count whatever its sign
sliceBytes(buf, from, to) ==
    LET f == IF from < 0 THEN 0 ELSE Min(from, Len(buf))
        t == IF to < 0 THEN 0 ELSE Min(to, Len(buf))
    IN  IF t <= f THEN <<>> ELSE SubSeq(buf, f + 1, t)

readBytes(buf, off, count) ==
    IF ~hasBytes(buf, off, count) THEN Fail(off)
    ELSE Ok(sliceBytes(buf, off, off + count), off + count)

readAsciiString(buf, off, length) ==
    IF ~hasBytes(buf, off, length) THEN Fail(off)
    ELSE Ok(sliceBytes(buf, off, off + length), off + length)

skip(buf, off, count) ==
    IF count > 0 THEN Min(off + count, Len(buf)) ELSE off

\* 32-bit accumulator of readVarUInt kept as two 16-bit limbs: the groups of
\* seven bits are disjoint, so `|=` is addition and `<<` drops bits >= 32
VarGroupLo(c, shift) == IF shift < 16 THEN (c * Pow2(shift)) % 65536 ELSE 0

VarGroupHi(c, shift) ==
    IF shift < 16 THEN (c * Pow2(shift)) \div 65536
    ELSE (c * Pow2(shift - 16)) % 65536

\* a loop that gives up one group early
varUIntContinues_FourGroups(b, shift) == b >= 128 /\ shift < 28

\* while ((b & 0x80) !== 0 && shift < 35), shift being the value after += 7
varUIntContinues(b, shift) == b >= 128 /\ shift < 35

RECURSIVE readVarUIntLoop(_, _, _, _, _)
readVarUIntLoop(buf, off, hi, lo, shift) ==
    IF ~hasBytes(buf, off, 1) THEN [ok |-> FALSE, hi |-> 0, lo |-> 0, off |-> off]
    ELSE LET b   == byteAt(buf, off)
             c   == IF b = Undefined THEN 0 ELSE b % 128
             hi2 == hi + VarGroupHi(c, shift)
             lo2 == lo + VarGroupLo(c, shift)
         IN  IF varUIntContinues(b, shift + 7)
             THEN readVarUIntLoop(buf, off + 1, hi2, lo2, shift + 7)
             ELSE [ok |-> TRUE, hi |-> hi2, lo |-> lo2, off |-> off + 1]

readVarUIntLimbs(buf, off) == readVarUIntLoop(buf, off, 0, 0, 0)

\* a failed varint read leaves the cursor after the bytes it consumed
readVarUInt(buf, off) ==
    LET r == readVarUIntLimbs(buf, off)
    IN  IF r.ok THEN Ok(r.hi * 65536 + r.lo, r.off) ELSE Fail(r.off)

RECURSIVE readVarInt64Loop(_, _, _, _)
readVarInt64Loop(buf, off, acc, shift) ==
    IF ~hasBytes(buf, off, 1) THEN Fail(off)
    ELSE LET b    == byteAt(buf, off)
             c    == IF b = Undefined THEN 0 ELSE b % 128
             acc2 == IF c = 0 THEN acc ELSE acc + c * Pow2(shift)
         IN  IF b >= 128 /\ shift + 7 < 70
             THEN readVarInt64Loop(buf, off + 1, acc2, shift + 7)
             ELSE Ok(acc2, off + 1)

readVarInt64(buf, off) == readVarInt64Loop(buf, off, 0, 0)

readVarUInt64(buf, off) == readVarInt64Loop(buf, off, 0, 0)

RECURSIVE readUTF16Loop(_, _, _)
readUTF16Loop(buf, off, chars) ==
    IF ~hasBytes(buf, off, 2) THEN Ok(chars, off)
    ELSE LET code == LE(buf, off, 2)
         IN  IF code = 0 THEN Ok(chars, off + 2)
             ELSE readUTF16Loop(buf, off + 2, Append(chars, code))

readNullTerminatedUTF16(buf, off) == readUTF16Loop(buf, off, <<>>)

----------------------------------------------------------------------------
(* NetTraceParser: fields and the fresh ParseResult                        *)

Null == [null |-> TRUE]

\* field initialisers and constructor of NetTraceParser
NewParser ==
    [offset        |-> 0,
     metadata      |-> EmptyMap,
     stacks        |-> EmptyMap,
     pointerSize   |-> 8,
     processId     |-> 0,
     errors        |-> <<>>,
     typeRegistry  |-> EmptyMap,
     nextTypeIndex |-> 0,
     cpuSamples    |-> EmptyMap,
     debugInfo     |-> [totalEvents             |-> 0,
                        allocationEvents        |-> 0,
                        providers               |-> <<>>,
                        metadataBlocks          |-> 0,
                        eventBlocks             |-> 0,
                        eventCountsByMetadataId |-> EmptyMap]]

\* the literal at the top of parse()
NewResult ==
    [traceInfo             |-> Null,
     metadata              |-> EmptyMap,
     allocations           |-> EmptyMap,
     events                |-> <<>>,
     stacks                |-> EmptyMap,
     methods               |-> EmptyMap,
     methodsByAddress      |-> EmptyMap,
     methodProfiles        |-> EmptyMap,
     allocationSamples     |-> EmptyMap,
     typeStackDistribution |-> EmptyMap,
     errors                |-> <<>>,
     debugInfo             |-> [totalEvents       |-> 0,
                                allocationEvents  |-> 0,
                                providers         |-> <<>>,
                                eventCounts       |-> EmptyMap,
                                samplingIntervalMs |-> 1]]

\* The decoders thread one record s = [p, r, f, ev]: p the parser fields, r
\* the ParseResult; f and ev are history, not program state: the decode
\* failures met and the event headers decoded so far.
St(p, r, f, ev) == [p |-> p, r |-> r, f |-> f, ev |-> ev]

NoteFailure(s, kind) == [s EXCEPT !.f = Append(@, kind)]

----------------------------------------------------------------------------
(* Stack block decoder                                                     *)

\* Math.floor(stackSize / pointerSize); Infinity is modelled by a count no
\* buffer can satisfy, a negative quotient by 0 iterations
numAddrsOf(stackSize, pointerSize) ==
    IF pointerSize = 0 THEN stackSize + MaxBlockSize
    ELSE IF pointerSize < 0 THEN 0
    ELSE stackSize \div pointerSize

\* inner loop of parseStackBlock: [ok, val = addresses, off]
RECURSIVE readAddresses(_, _, _, _, _, _)
readAddresses(data, off, j, numAddrs, pointerSize, addresses) ==
    IF ~(j < numAddrs /\ hasBytes(data, off, pointerSize)) THEN Ok(addresses, off)
    ELSE LET r == IF pointerSize = 8 THEN readUInt64LE(data, off)
                  ELSE readUInt32LE(data, off)
         IN  IF ~r.ok THEN Fail(r.off)
             ELSE readAddresses(data, r.off, j + 1, numAddrs, pointerSize,
                                Append(addresses, r.val))

\* outer loop of parseStackBlock
RECURSIVE parseStackEntries(_, _, _, _, _, _)
parseStackEntries(s, data, off, i, count, currentId) ==
    IF ~(i < count /\ remaining(data, off) >= 4) THEN s
    ELSE LET sz == readUInt32LE(data, off)
         IN  IF sz.val = 0 \/ ~hasBytes(data, sz.off, sz.val) THEN s
             ELSE LET a == readAddresses(data, sz.off, 0,
                                         numAddrsOf(sz.val, s.p.pointerSize),
                                         s.p.pointerSize, <<>>)
                  IN  IF ~a.ok THEN NoteFailure(s, "StackBlock")
                      ELSE parseStackEntries(
                               [s EXCEPT !.p.stacks =
                                   MapSet(@, currentId,
                                          [stackId |-> currentId, addresses |-> a.val])],
                               data, a.off, i + 1, count, currentId + 1)

parseStackBlock(s, data) ==
    LET firstId == readUInt32LE(data, 0)
        count   == readUInt32LE(data, firstId.off)
    IN  IF ~firstId.ok \/ ~count.ok THEN NoteFailure(s, "StackBlock")
        ELSE parseStackEntries(s, data, count.off, 0, count.val, firstId.val)

----------------------------------------------------------------------------
(* String constants (character codes)                                      *)

\* 'Nettrace'
Str_Nettrace == <<78, 101, 116, 116, 114, 97, 99, 101>>
\* '!FastSerialization.1'
Str_FastSerialization == <<33, 70, 97, 115, 116, 83, 101, 114, 105, 97, 108, 105, 122, 97, 116, 105, 111, 110, 46, 49>>
Str_Trace == <<84, 114, 97, 99, 101>>
Str_MetadataBlock == <<77, 101, 116, 97, 100, 97, 116, 97, 66, 108, 111, 99, 107>>
Str_EventBlock == <<69, 118, 101, 110, 116, 66, 108, 111, 99, 107>>
Str_StackBlock == <<83, 116, 97, 99, 107, 66, 108, 111, 99, 107>>
Str_SPBlock == <<83, 80, 66, 108, 111, 99, 107>>
\* 'Microsoft-Windows-DotNETRuntime'
DOTNET_RUNTIME_PROVIDER == <<77, 105, 99, 114, 111, 115, 111, 102, 116, 45, 87, 105, 110, 100, 111, 119, 115, 45, 68, 111, 116, 78, 69, 84, 82, 117, 110, 116, 105, 109, 101>>
\* 'Microsoft-Windows-DotNETRuntimeRundown'
DOTNET_RUNTIME_RUNDOWN_PROVIDER == <<77, 105, 99, 114, 111, 115, 111, 102, 116, 45, 87, 105, 110, 100, 111, 119, 115, 45, 68, 111, 116, 78, 69, 84, 82, 117, 110, 116, 105, 109, 101, 82, 117, 110, 100, 111, 119, 110>>
\* 'Microsoft-DotNETCore-SampleProfiler'
SAMPLE_PROFILER_PROVIDER == <<77, 105, 99, 114, 111, 115, 111, 102, 116, 45, 68, 111, 116, 78, 69, 84, 67, 111, 114, 101, 45, 83, 97, 109, 112, 108, 101, 80, 114, 111, 102, 105, 108, 101, 114>>
\* '<unknown>'
Str_unknown == <<60, 117, 110, 107, 110, 111, 119, 110, 62>>
\* '<unknown> 0x'
Str_unknown0x == <<60, 117, 110, 107, 110, 111, 119, 110, 62, 32, 48, 120>>
\* '0x'
Str_0x == <<48, 120>>
\* 'Method_0x'
Str_Method0x == <<77, 101, 116, 104, 111, 100, 95, 48, 120>>
\* 'root'
Str_root == <<114, 111, 111, 116>>

HexDigit(d) == IF d < 10 THEN 48 + d ELSE 87 + d

\* BigInt.prototype.toString(16) of a non-negative value
RECURSIVE toString16(_)
toString16(n) ==
    IF n < 16 THEN <<HexDigit(n)>> ELSE Append(toString16(n \div 16), HexDigit(n % 16))

\* `0x${addr.toString(16)}`
hexAddr(addr) == Str_0x \o toString16(addr)

----------------------------------------------------------------------------
(* Consecutive fixed-width reads: the first one that does not fit throws   *)

readKind(buf, off, kind) ==
    CASE kind = "i16" -> readInt16LE(buf, off)
      [] kind = "u16" -> readUInt16LE(buf, off)
      [] kind = "i32" -> readInt32LE(buf, off)
      [] kind = "u32" -> readUInt32LE(buf, off)
      [] kind = "i64" -> readInt64LE(buf, off)
      [] kind = "u64" -> readUInt64LE(buf, off)

RECURSIVE readFieldsFrom(_, _, _, _)
readFieldsFrom(buf, off, kinds, vals) ==
    IF kinds = <<>> THEN Ok(vals, off)
    ELSE LET r == readKind(buf, off, Head(kinds))
         IN  IF ~r.ok THEN Fail(r.off)
             ELSE readFieldsFrom(buf, r.off, Tail(kinds), Append(vals, r.val))

readFields(buf, off, kinds) == readFieldsFrom(buf, off, kinds, <<>>)

----------------------------------------------------------------------------
(* Trace object                                                            *)

\* data is the 48-byte slice read by parseObjectPayload.  syncTimeUTC is kept
\* as the SYSTEMTIME components handed to Date.UTC.
parseTraceBlob(s, data) ==
    Bind(readFields(data, 0, <<"i16", "i16", "i16", "i16", "i16", "i16", "i16", "i16",
                               "i64", "i64", "i32", "i32", "i32", "i32">>).val, LAMBDA t :
        [s EXCEPT !.p.pointerSize = t[11], !.p.processId = t[12],
                  !.r.traceInfo =
                      [syncTimeUTC        |-> <<t[1], t[2], t[4], t[5], t[6], t[7], t[8]>>,
                       syncTimeTicks      |-> t[9],
                       tickFrequency      |-> t[10],
                       pointerSize        |-> t[11],
                       processId          |-> t[12],
                       numberOfProcessors |-> t[13],
                       cpuSamplingRate    |-> t[14]]])

----------------------------------------------------------------------------
(* Allocation aggregator                                                   *)

\* allocInfo.totalSize overwritten where the code accumulates
recordAllocation_Overwrite(info, typeName, size, timestamp, stackTrace) ==
    [info EXCEPT !.count = @ + 1,
                 !.totalSize = size,
                 !.allocations = Append(@, [typeName   |-> typeName,
                                            size       |-> size,
                                            timestamp  |-> timestamp,
                                            stackTrace |-> stackTrace])]

\* allocInfo.count++, allocInfo.totalSize += size, allocInfo.allocations.push
recordAllocation(info, typeName, size, timestamp, stackTrace) ==
    [info EXCEPT !.count = @ + 1,
                 !.totalSize = @ + size,
                 !.allocations = Append(@, [typeName   |-> typeName,
                                            size       |-> size,
                                            timestamp  |-> timestamp,
                                            stackTrace |-> stackTrace])]

\* every allocation is tracked by stack, stack id 0 too
tracksStack_Always(stackId) == TRUE

\* if (stackId > 0): the allocation is tracked by stack
tracksStack(stackId) == stackId > 0

addAllocation(s, typeName, size, timestamp, stackId) ==
    LET allocs0   == s.r.allocations
        allocs1   == IF MapHas(allocs0, typeName) THEN allocs0
                     ELSE MapSet(allocs0, typeName,
                                 [typeName |-> typeName, count |-> 0, totalSize |-> 0,
                                  allocations |-> <<>>])
        info      == MapGet(allocs1, typeName)
        stackTrace == IF MapHas(s.p.stacks, stackId)
                      THEN [defined |-> TRUE,
                            frames |-> [i \in 1..Len(MapGet(s.p.stacks, stackId).addresses) |->
                                           hexAddr(MapGet(s.p.stacks, stackId).addresses[i])]]
                      ELSE [defined |-> FALSE, frames |-> <<>>]
        info2     == recordAllocation(info, typeName, size, timestamp, stackTrace)
        samples0  == s.r.allocationSamples
        samples1  ==
            IF MapHas(samples0, stackId)
            THEN LET ex == MapGet(samples0, stackId)
                     ty == IF MapHas(ex.types, typeName)
                           THEN MapSet(ex.types, typeName,
                                       [count |-> MapGet(ex.types, typeName).count + 1,
                                        size  |-> MapGet(ex.types, typeName).size + size])
                           ELSE MapSet(ex.types, typeName, [count |-> 1, size |-> size])
                 IN  MapSet(samples0, stackId,
                            [count |-> ex.count + 1, size |-> ex.size + size, types |-> ty])
            ELSE MapSet(samples0, stackId,
                        [count |-> 1, size |-> size,
                         types |-> MapSet(EmptyMap, typeName, [count |-> 1, size |-> size])])
        dist0     == s.r.typeStackDistribution
        dist1     == IF MapHas(dist0, typeName) THEN dist0 ELSE MapSet(dist0, typeName, EmptyMap)
        typeStacks == MapGet(dist1, typeName)
        dist2     == MapSet(dist1, typeName,
                            IF MapHas(typeStacks, stackId)
                            THEN MapSet(typeStacks, stackId,
                                        [count |-> MapGet(typeStacks, stackId).count + 1,
                                         size  |-> MapGet(typeStacks, stackId).size + size])
                            ELSE MapSet(typeStacks, stackId, [count |-> 1, size |-> size]))
    IN  [s EXCEPT !.r.allocations = MapSet(allocs1, typeName, info2),
                  !.r.allocationSamples = IF tracksStack(stackId) THEN samples1 ELSE @,
                  !.r.typeStackDistribution = IF tracksStack(stackId) THEN dist2 ELSE @]

\* GCAllocationTick payload
parseAllocationEvent(s, payload, timestamp, stackId) ==
    IF Len(payload) < 10 THEN NoteFailure(s, "AllocationPayload")
    ELSE Bind(readFields(payload, 0, <<"u32", "u32", "u16">>), LAMBDA h :
         Bind(IF remaining(payload, h.off) >= 8 THEN readUInt64LE(payload, h.off)
              ELSE Ok(h.val[1], h.off), LAMBDA a64 :
         Bind(IF remaining(payload, a64.off) >= s.p.pointerSize
              THEN skip(payload, a64.off, s.p.pointerSize) ELSE a64.off, LAMBDA off2 :
         Bind(readNullTerminatedUTF16(payload, off2).val, LAMBDA name :
             addAllocation(s, IF name = <<>> THEN Str_unknown ELSE name,
                           a64.val, timestamp, stackId)))))

----------------------------------------------------------------------------
(* Method events and CPU samples                                           *)

\* namespace, name and signature: three null-terminated UTF-16 strings
readMethodStrings(payload, off) ==
    Bind(readNullTerminatedUTF16(payload, off), LAMBDA ns :
    Bind(readNullTerminatedUTF16(payload, ns.off), LAMBDA nm :
        [methodNamespace |-> ns.val,
         methodName      |-> nm.val,
         methodSignature |-> readNullTerminatedUTF16(payload, nm.off).val]))

parseMethodLoadVerboseEvent(s, payload) ==
    Bind(readFields(payload, 0, <<"u64", "u64", "u64", "u32", "u32", "u32">>), LAMBDA h :
        IF ~h.ok THEN NoteFailure(s, "MethodLoadPayload")
        ELSE Bind(readMethodStrings(payload, h.off), LAMBDA str :
             Bind([methodId           |-> h.val[1],
                   moduleId           |-> h.val[2],
                   methodStartAddress |-> h.val[3],
                   methodSize         |-> h.val[4],
                   methodToken        |-> h.val[5],
                   methodFlags        |-> h.val[6],
                   methodNamespace    |-> str.methodNamespace,
                   methodName         |-> str.methodName,
                   methodSignature    |-> str.methodSignature], LAMBDA methodInfo :
                 [s EXCEPT !.r.methods = MapSet(@, h.val[1], methodInfo),
                           !.r.methodsByAddress = MapSet(@, h.val[3], methodInfo)])))

\* a jit-start that stores its record whether or not the id is known
parseMethodJittingStartedEvent_Always(s, payload) ==
    Bind(readFields(payload, 0, <<"u64", "u64", "u32", "u32">>), LAMBDA h :
        IF ~h.ok THEN NoteFailure(s, "MethodJitPayload")
        ELSE Bind(readMethodStrings(payload, h.off), LAMBDA str :
                 [s EXCEPT !.r.methods =
                     MapSet(@, h.val[1],
                            [methodId           |-> h.val[1],
                             moduleId           |-> h.val[2],
                             methodStartAddress |-> 0,
                             methodSize         |-> 0,
                             methodToken        |-> h.val[3],
                             methodFlags        |-> 0,
                             methodNamespace    |-> str.methodNamespace,
                             methodName         |-> str.methodName,
                             methodSignature    |-> str.methodSignature])]))

parseMethodJittingStartedEvent(s, payload) ==
    Bind(readFields(payload, 0, <<"u64", "u64", "u32", "u32">>), LAMBDA h :
        IF ~h.ok THEN NoteFailure(s, "MethodJitPayload")
        ELSE Bind(readMethodStrings(payload, h.off), LAMBDA str :
                 IF MapHas(s.r.methods, h.val[1]) THEN s
                 ELSE [s EXCEPT !.r.methods =
                          MapSet(@, h.val[1],
                                 [methodId           |-> h.val[1],
                                  moduleId           |-> h.val[2],
                                  methodStartAddress |-> 0,
                                  methodSize         |-> 0,
                                  methodToken        |-> h.val[3],
                                  methodFlags        |-> 0,
                                  methodNamespace    |-> str.methodNamespace,
                                  methodName         |-> str.methodName,
                                  methodSignature    |-> str.methodSignature])]))

processCpuSample(s, stackId) ==
    IF stackId > 0
    THEN [s EXCEPT !.p.cpuSamples =
             MapSet(@, stackId, (IF MapHas(@, stackId) THEN MapGet(@, stackId) ELSE 0) + 1)]
    ELSE s

----------------------------------------------------------------------------
(* Event dispatcher                                                        *)

\* an id without a schema resolved to the schema first defined
metadataGet_FirstForMissing(metadata, metadataId) ==
    IF MapHas(metadata, metadataId)
    THEN [defined |-> TRUE, meta |-> MapGet(metadata, metadataId)]
    ELSE IF Len(metadata) > 0 THEN [defined |-> TRUE, meta |-> metadata[1].v]
    ELSE [defined |-> FALSE, meta |-> <<>>]

\* this.metadata.get(metadataId)
metadataGet(metadata, metadataId) ==
    IF MapHas(metadata, metadataId)
    THEN [defined |-> TRUE, meta |-> MapGet(metadata, metadataId)]
    ELSE [defined |-> FALSE, meta |-> <<>>]

processEvent(s, metadataId, threadId, timestamp, stackId, payload) ==
    Bind([s EXCEPT !.p.debugInfo.totalEvents = @ + 1,
                   !.p.debugInfo.eventCountsByMetadataId =
                       MapSet(@, metadataId,
                              (IF MapHas(@, metadataId) THEN MapGet(@, metadataId) ELSE 0) + 1)],
         LAMBDA s1 :
        IF ~metadataGet(s.p.metadata, metadataId).defined THEN s1
        ELSE Bind(metadataGet(s.p.metadata, metadataId).meta, LAMBDA meta :
             Bind(IF meta.providerName = DOTNET_RUNTIME_PROVIDER
                  THEN IF meta.eventId = GC_ALLOCATION_TICK_EVENT_ID
                       THEN parseAllocationEvent(
                                [s1 EXCEPT !.p.debugInfo.allocationEvents = @ + 1],
                                payload, timestamp, stackId)
                       ELSE IF meta.eventId = METHOD_LOAD_VERBOSE_EVENT_ID
                       THEN parseMethodLoadVerboseEvent(s1, payload)
                       ELSE IF meta.eventId = METHOD_JITTING_STARTED_EVENT_ID
                       THEN parseMethodJittingStartedEvent(s1, payload)
                       ELSE s1
                  ELSE s1, LAMBDA s2 :
             Bind(IF meta.providerName = DOTNET_RUNTIME_RUNDOWN_PROVIDER
                     /\ meta.eventId = METHOD_DC_END_VERBOSE_EVENT_ID
                  THEN parseMethodLoadVerboseEvent(s2, payload)
                  ELSE s2, LAMBDA s3 :
                 IF meta.providerName = SAMPLE_PROFILER_PROVIDER
                 THEN processCpuSample(s3, stackId)
                 ELSE s3))))

----------------------------------------------------------------------------
(* Per-event headers                                                       *)

Bit(flags, mask) == (flags \div mask) % 2 = 1

\* readUInt32LE() & 0x7FFFFFFF and readInt32LE() & 0x7FFFFFFF: the low 31 bits
readLow31(buf, off) ==
    IF ~hasBytes(buf, off, 4) \/ off < 0 THEN Fail(off)
    ELSE Ok(LE(buf, off, 3) + (buf[off + 4] % 128) * 16777216, off + 4)

\* an absent header field read as 0, not as the previous event's value
optVarUInt_NoCarry(buf, off, present, prev) ==
    IF present THEN readVarUInt(buf, off) ELSE Ok(0, off)

\* a header field that is read only when its flag bit is set
optVarUInt(buf, off, present, prev) ==
    IF present THEN readVarUInt(buf, off) ELSE Ok(prev, off)

optVarInt64(buf, off, present, prev) ==
    IF present THEN readVarInt64(buf, off) ELSE Ok(prev, off)

optSkip16(buf, off, present) == IF present THEN skip(buf, off, 16) ELSE off

\* the header state both decoders start a block with
ZeroHeaderState ==
    [metadataId |-> 0, sequenceNumber |-> 0, captureThreadId |-> 0, threadId |-> 0,
     stackId |-> 0, timestamp |-> 0, payloadSize |-> 0]

\* compressed header, as read by parseEvents: [ok, val = header, off]
readCompressedEventHeader(buf, off0, prev) ==
    LET fl   == readByte(buf, off0)
        fv   == IF fl.ok /\ fl.val # Undefined THEN fl.val ELSE 0
        mid  == optVarUInt(buf, fl.off, Bit(fv, 1), prev.metadataId)
        sq   == optVarUInt(buf, mid.off, Bit(fv, 2), 0)
        cap  == optVarInt64(buf, sq.off, Bit(fv, 2), 0)
        prc  == optVarUInt(buf, cap.off, Bit(fv, 2), 0)
        tid  == optVarInt64(buf, prc.off, Bit(fv, 4), prev.threadId)
        sid  == optVarUInt(buf, tid.off, Bit(fv, 8), prev.stackId)
        tsd  == readVarUInt64(buf, sid.off)
        off1 == optSkip16(buf, optSkip16(buf, tsd.off, Bit(fv, 16)), Bit(fv, 32))
        psz  == optVarUInt(buf, off1, Bit(fv, 128), prev.payloadSize)
    IN  IF fl.ok /\ mid.ok /\ sq.ok /\ cap.ok /\ prc.ok /\ tid.ok /\ sid.ok /\ tsd.ok /\ psz.ok
        THEN Ok([prev EXCEPT !.metadataId = mid.val, !.threadId = tid.val,
                             !.stackId = sid.val, !.timestamp = prev.timestamp + tsd.val,
                             !.payloadSize = psz.val], psz.off)
        ELSE Fail(off0)

\* compressed header, as read by parseMetadataEvent (it also keeps the
\* sequence number and the capture thread)
readCompressedMetadataHeader(buf, off0, prev) ==
    LET fl   == readByte(buf, off0)
        fv   == IF fl.ok /\ fl.val # Undefined THEN fl.val ELSE 0
        mid  == optVarUInt(buf, fl.off, Bit(fv, 1), prev.metadataId)
        sq   == optVarUInt(buf, mid.off, Bit(fv, 2), 0)
        cap  == optVarInt64(buf, sq.off, Bit(fv, 2), prev.captureThreadId)
        prc  == optVarUInt(buf, cap.off, Bit(fv, 2), 0)
        seq  == IF Bit(fv, 2) THEN prev.sequenceNumber + sq.val + 1
                ELSE IF mid.val # 0 THEN prev.sequenceNumber + 1
                ELSE prev.sequenceNumber
        tid  == optVarInt64(buf, prc.off, Bit(fv, 4), prev.threadId)
        sid  == optVarUInt(buf, tid.off, Bit(fv, 8), prev.stackId)
        tsd  == readVarUInt64(buf, sid.off)
        off1 == optSkip16(buf, optSkip16(buf, tsd.off, Bit(fv, 16)), Bit(fv, 32))
        psz  == optVarUInt(buf, off1, Bit(fv, 128), prev.payloadSize)
    IN  IF fl.ok /\ mid.ok /\ sq.ok /\ cap.ok /\ prc.ok /\ tid.ok /\ sid.ok /\ tsd.ok /\ psz.ok
        THEN Ok([metadataId |-> mid.val, sequenceNumber |-> seq,
                 captureThreadId |-> cap.val, threadId |-> tid.val, stackId |-> sid.val,
                 timestamp |-> prev.timestamp + tsd.val, payloadSize |-> psz.val], psz.off)
        ELSE Fail(off0)

\* fixed layout of parseEvents, from the metadata id to the payload size
readUncompressedEventHeader(buf, off0, prev) ==
    LET mid == readLow31(buf, off0)
        h   == readFields(buf, mid.off, <<"u32", "u64", "u64", "u32", "u32", "u64">>)
        psz == readUInt32LE(buf, skip(buf, h.off, 32))
    IN  IF mid.ok /\ h.ok /\ psz.ok
        THEN Ok([prev EXCEPT !.metadataId = mid.val, !.threadId = h.val[2],
                             !.stackId = h.val[5], !.timestamp = h.val[6],
                             !.payloadSize = psz.val], psz.off)
        ELSE Fail(off0)

\* fixed layout of parseMetadataEvent, from the event size to the payload size
readUncompressedMetadataHeader(buf, off0, prev) ==
    LET esz == readInt32LE(buf, off0)
        mid == readLow31(buf, esz.off)
        h   == readFields(buf, mid.off, <<"i32", "i64", "i64", "i32", "i32", "i64">>)
        psz == readInt32LE(buf, skip(buf, skip(buf, h.off, 16), 16))
    IN  IF esz.ok /\ mid.ok /\ h.ok /\ psz.ok
        THEN Ok([metadataId |-> mid.val, sequenceNumber |-> h.val[1],
                 captureThreadId |-> h.val[3], threadId |-> h.val[2], stackId |-> h.val[5],
                 timestamp |-> h.val[6], payloadSize |-> psz.val], psz.off)
        ELSE Fail(off0)

----------------------------------------------------------------------------
(* Metadata block decoder                                                  *)

\* the field loop of parseMetadataPayload
RECURSIVE readMetadataFields(_, _, _, _, _)
readMetadataFields(buf, off, i, fieldCount, fields) ==
    IF ~(i < fieldCount /\ remaining(buf, off) > 4) THEN fields
    ELSE LET tc   == readInt32LE(buf, off)
             off1 == IF tc.val = 19 /\ remaining(buf, tc.off) >= 4 THEN tc.off + 4 ELSE tc.off
             nm   == readNullTerminatedUTF16(buf, off1)
         IN  readMetadataFields(buf, nm.off, i + 1, fieldCount,
                                Append(fields, [name |-> nm.val, typeCode |-> tc.val]))

SetAdd(seq, x) == IF x \in Range(seq) THEN seq ELSE Append(seq, x)

\* the fields after the fixed part of a metadata payload
metadataFieldsAt(buf, off) ==
    IF remaining(buf, off) >= 4
    THEN readMetadataFields(buf, off + 4, 0, readInt32LE(buf, off).val, <<>>)
    ELSE <<>>

\* the schema stored under its event id
setMetadata_ByEventId(table, payloadMetadataId, metadata) ==
    MapSet(table, metadata.eventId, metadata)

\* this.metadata.set(payloadMetadataId, metadata)
setMetadata(table, payloadMetadataId, metadata) ==
    MapSet(table, payloadMetadataId, metadata)

\* buf is the sub-reader's buffer: exactly the payloadSize bytes of the event
parseMetadataPayload(s, buf) ==
    Bind(readInt32LE(buf, 0), LAMBDA id :
    Bind(readNullTerminatedUTF16(buf, id.off), LAMBDA prov :
    Bind(readInt32LE(buf, prov.off), LAMBDA eid :
    Bind(readNullTerminatedUTF16(buf, eid.off), LAMBDA enm :
    Bind(readFields(buf, enm.off, <<"i64", "i32", "i32">>), LAMBDA h :
        IF ~(id.ok /\ eid.ok /\ h.ok) THEN NoteFailure(s, "MetadataPayload")
        ELSE [s EXCEPT !.p.debugInfo.providers = SetAdd(@, prov.val),
                       !.p.metadata =
                           setMetadata(@, id.val,
                                  [metadataId   |-> id.val,
                                   providerName |-> prov.val,
                                   eventId      |-> eid.val,
                                   eventName    |-> enm.val,
                                   keywords     |-> h.val[1],
                                   version      |-> h.val[2],
                                   level        |-> h.val[3],
                                   opcode       |-> 0,
                                   fields       |-> metadataFieldsAt(buf, h.off)])])))))

\* one call of parseMetadataEvent: [ok, s, off, state]
parseMetadataEvent(s, buf, off, compressed, state) ==
    Bind(IF compressed THEN readCompressedMetadataHeader(buf, off, state)
         ELSE readUncompressedMetadataHeader(buf, off, state), LAMBDA h :
        IF ~h.ok THEN [ok |-> FALSE, s |-> s, off |-> off, state |-> state]
        ELSE IF h.val.payloadSize > 0 /\ hasBytes(buf, h.off, h.val.payloadSize)
        THEN [ok |-> TRUE,
              s |-> parseMetadataPayload(s, readBytes(buf, h.off, h.val.payloadSize).val),
              off |-> h.off + h.val.payloadSize, state |-> h.val]
        ELSE [ok |-> TRUE, s |-> s, off |-> h.off, state |-> h.val])

\* the while loop of parseMetadataBlock
RECURSIVE parseMetadataEvents(_, _, _, _, _)
parseMetadataEvents(s, buf, off, compressed, state) ==
    IF ~(remaining(buf, off) > 0) THEN s
    ELSE Bind(parseMetadataEvent(s, buf, off, compressed, state), LAMBDA e :
             IF ~e.ok THEN NoteFailure(s, "MetadataEvent")
             ELSE parseMetadataEvents(e.s, buf, e.off, compressed, e.state))

\* [threw, s, off]: threw = the header reads ran past the block
parseMetadataBlock(s, data) ==
    LET h == readFields(data, 0, <<"i16", "i16">>)
    IN  IF ~h.ok THEN [threw |-> TRUE, s |-> s, off |-> h.off]
        ELSE [threw |-> FALSE,
              s |-> parseMetadataEvents(s, data,
                        IF h.val[1] > 4 THEN skip(data, h.off, h.val[1] - 4) ELSE h.off,
                        h.val[2] % 2 = 1, ZeroHeaderState),
              off |-> h.off]

----------------------------------------------------------------------------
(* Event block decoder                                                     *)

Dispatch(s, h, payload) ==
    processEvent(s, h.metadataId, h.threadId, h.timestamp, h.stackId, payload)

NoteEvent(s, h, dispatched) ==
    [s EXCEPT !.ev = Append(@, [metadataId |-> h.metadataId, threadId |-> h.threadId,
                                stackId |-> h.stackId, timestamp |-> h.timestamp,
                                payloadSize |-> h.payloadSize, dispatched |-> dispatched])]

\* if (payloadSize > 0 && reader.hasBytes(payloadSize)) { ... processEvent(...) }
payloadDispatched(buf, off, payloadSize) == payloadSize > 0 /\ hasBytes(buf, off, payloadSize)

\* the event just read: its payload is dispatched when it is there; [s, off]
dispatchEvent(s, buf, h) ==
    IF payloadDispatched(buf, h.off, h.val.payloadSize)
    THEN [s   |-> NoteEvent(Dispatch(s, h.val, readBytes(buf, h.off, h.val.payloadSize).val),
                            h.val, TRUE),
          off |-> h.off + h.val.payloadSize]
    ELSE [s |-> NoteEvent(s, h.val, FALSE), off |-> h.off]

\* (4 - (consumed & 3)) & 3 bytes after an uncompressed event
eventPadding(consumed) == (4 - (consumed % 4)) % 4

\* the while loop of parseEvents
RECURSIVE parseEvents(_, _, _, _, _)
parseEvents(s, buf, off, compressed, prev) ==
    IF ~(remaining(buf, off) > 0) THEN s
    ELSE IF compressed
    THEN Bind(readCompressedEventHeader(buf, off, prev), LAMBDA h :
             IF ~h.ok THEN NoteFailure(s, "EventHeader")
             ELSE Bind(dispatchEvent(s, buf, h), LAMBDA d :
                      parseEvents(d.s, buf, d.off, compressed, h.val)))
    ELSE IF ~hasBytes(buf, off, 4) THEN NoteFailure(s, "EventSize")
    ELSE Bind(readUInt32LE(buf, off), LAMBDA esz :
             IF esz.val = 0 THEN s
             ELSE IF ~hasBytes(buf, esz.off, esz.val) THEN NoteFailure(s, "EventSize")
             ELSE Bind(readUncompressedEventHeader(buf, esz.off, prev), LAMBDA h :
                      IF ~h.ok THEN NoteFailure(s, "EventHeader")
                      ELSE Bind(dispatchEvent(s, buf, h), LAMBDA d :
                               parseEvents(d.s, buf,
                                           skip(buf, d.off, eventPadding(d.off - esz.off)),
                                           compressed, h.val))))

\* [threw, s, off]
parseEventBlock(s, data) ==
    LET h == readFields(data, 0, <<"i16", "i16", "i64", "i64">>)
    IN  IF ~h.ok THEN [threw |-> TRUE, s |-> s, off |-> h.off]
        ELSE [threw |-> FALSE,
              s |-> parseEvents(s, data,
                        IF h.val[1] > 20 THEN skip(data, h.off, h.val[1] - 20) ELSE h.off,
                        h.val[2] % 2 = 1, ZeroHeaderState),
              off |-> h.off]

----------------------------------------------------------------------------
(* Block dispatch                                                          *)

Err(kind, typeName, detail) == [kind |-> kind, typeName |-> typeName, detail |-> detail]

\* this.errors.push(`Error processing ${typeName}: ${errMsg}`)
pushProcessingError(s, typeName, off) ==
    [s EXCEPT !.p.errors = Append(@, Err("Error processing", typeName, off))]

\* the 'Trace' case is never taken: parseObjectPayload returns before it
processBlock(s, typeName, data) ==
    IF typeName = Str_MetadataBlock
    THEN Bind(parseMetadataBlock([s EXCEPT !.p.debugInfo.metadataBlocks = @ + 1], data),
              LAMBDA r :
             IF r.threw THEN pushProcessingError(NoteFailure(r.s, "MetadataBlock"), typeName, r.off)
             ELSE r.s)
    ELSE IF typeName = Str_EventBlock
    THEN Bind(parseEventBlock([s EXCEPT !.p.debugInfo.eventBlocks = @ + 1], data),
              LAMBDA r :
             IF r.threw THEN pushProcessingError(NoteFailure(r.s, "EventBlock"), typeName, r.off)
             ELSE r.s)
    ELSE IF typeName = Str_StackBlock THEN parseStackBlock(s, data)
    ELSE s

----------------------------------------------------------------------------
(* Address -> method resolver and the method-profile post-pass             *)

\* Array.prototype.sort with a comparator on one numeric key (stable): the
\* items are [key, val] records, sorted by ascending key
RECURSIVE InsertSorted(_, _)
InsertSorted(sorted, x) ==
    IF sorted = <<>> THEN <<x>>
    ELSE IF x.key < Head(sorted).key THEN <<x>> \o sorted
    ELSE <<Head(sorted)>> \o InsertSorted(Tail(sorted), x)

RECURSIVE SortStable(_)
SortStable(seq) ==
    IF seq = <<>> THEN <<>>
    ELSE InsertSorted(SortStable(SubSeq(seq, 1, Len(seq) - 1)), seq[Len(seq)])

getMethodFullName(method) ==
    IF method.methodNamespace # <<>>
    THEN method.methodNamespace \o <<46>> \o method.methodName
    ELSE IF method.methodName # <<>> THEN method.methodName
    ELSE Str_Method0x \o toString16(method.methodStartAddress)

HasStartAddress(method) == method.methodStartAddress > 0

\* the sorted interval list built from result.methods
methodAddresses(methods) ==
    LET withStart == SelectSeq(MapValues(methods), HasStartAddress)
        entries == [i \in 1..Len(withStart) |->
                       [address    |-> withStart[i].methodStartAddress,
                        endAddress |-> withStart[i].methodStartAddress + withStart[i].methodSize,
                        method     |-> withStart[i]]]
        sorted == SortStable([i \in 1..Len(entries) |->
                                 [key |-> entries[i].address, val |-> entries[i]]])
    IN  [i \in 1..Len(sorted) |-> sorted[i].val]

RECURSIVE binarySearch(_, _, _, _)
binarySearch(ma, addr, left, right) ==
    IF ~(left <= right) THEN [found |-> FALSE, index |-> 0]
    ELSE LET mid == (left + right) \div 2
             entry == ma[mid + 1]
         IN  IF addr >= entry.address /\ addr < entry.endAddress
             THEN [found |-> TRUE, index |-> mid + 1]
             ELSE IF addr < entry.address THEN binarySearch(ma, addr, left, mid - 1)
             ELSE binarySearch(ma, addr, mid + 1, right)

findMethodByAddress(ma, addr) == binarySearch(ma, addr, 0, Len(ma) - 1)

\* the name computeMethodProfiles credits for an address
profileName(ma, addr) ==
    LET f == findMethodByAddress(ma, addr)
    IN  IF f.found THEN getMethodFullName(ma[f.index].method)
        ELSE Str_unknown0x \o toString16(addr)

MapAdd(m, k, n) == MapSet(m, k, (IF MapHas(m, k) THEN MapGet(m, k) ELSE 0) + n)

\* the exclusive credit of one frame: only the top of stack (i === 0)
creditExclusive(exc, i, name, sampleCount) ==
    IF i = 0 THEN MapAdd(exc, name, sampleCount) ELSE exc

\* inclusive credit that counts the stack once, whatever its sample count
creditInclusive_PerStack(inc, seen, name, sampleCount) ==
    IF name \in seen THEN inc ELSE MapAdd(inc, name, 1)

\* the inclusive credit of one frame: once per distinct name on the stack
creditInclusive(inc, seen, name, sampleCount) ==
    IF name \in seen THEN inc ELSE MapAdd(inc, name, sampleCount)

\* the loop over the addresses of one stack; acc = [inc, exc, seen]
RECURSIVE creditStack(_, _, _, _, _)
creditStack(acc, ma, addresses, i, sampleCount) ==
    IF ~(i < Len(addresses)) THEN acc
    ELSE LET name == profileName(ma, addresses[i + 1])
         IN  creditStack([inc  |-> creditInclusive(acc.inc, acc.seen, name, sampleCount),
                          exc  |-> creditExclusive(acc.exc, i, name, sampleCount),
                          seen |-> acc.seen \cup {name}],
                         ma, addresses, i + 1, sampleCount)

\* the loop over this.cpuSamples
RECURSIVE creditSamples(_, _, _, _, _)
creditSamples(acc, ma, cpuSamples, stacks, n) ==
    IF n > Len(cpuSamples) THEN acc
    ELSE LET stackId == cpuSamples[n].k
             skipIt  == ~MapHas(stacks, stackId)
                        \/ MapGet(stacks, stackId).addresses = <<>>
             a == IF skipIt THEN acc
                  ELSE creditStack([acc EXCEPT !.seen = {}], ma,
                                   MapGet(stacks, stackId).addresses, 0, cpuSamples[n].v)
         IN  creditSamples(a, ma, cpuSamples, stacks, n + 1)

RECURSIVE Dedup(_)
Dedup(seq) ==
    IF seq = <<>> THEN <<>>
    ELSE LET d == Dedup(SubSeq(seq, 1, Len(seq) - 1))
         IN  IF seq[Len(seq)] \in Range(d) THEN d ELSE Append(d, seq[Len(seq)])

\* one MethodProfile of computeMethodProfiles; samplingIntervalMs = 1
profileOf(acc, name) ==
    Bind(IF MapHas(acc.inc, name) THEN MapGet(acc.inc, name) ELSE 0, LAMBDA inclusiveCount :
    Bind(IF MapHas(acc.exc, name) THEN MapGet(acc.exc, name) ELSE 0, LAMBDA exclusiveCount :
        [methodName      |-> name,
         inclusiveCount  |-> inclusiveCount,
         exclusiveCount  |-> exclusiveCount,
         inclusiveTimeMs |-> inclusiveCount * 1,
         exclusiveTimeMs |-> exclusiveCount * 1]))

\* result.methodProfiles.set on a table that may already hold entries
RECURSIVE setProfiles(_, _, _, _)
setProfiles(m, acc, allMethods, n) ==
    IF n > Len(allMethods) THEN m
    ELSE setProfiles(MapSet(m, allMethods[n], profileOf(acc, allMethods[n])),
                     acc, allMethods, n + 1)

computeMethodProfiles(s) ==
    Bind(creditSamples([inc |-> EmptyMap, exc |-> EmptyMap, seen |-> {}],
                       methodAddresses(s.r.methods), s.p.cpuSamples, s.p.stacks, 1),
         LAMBDA acc :
        [s EXCEPT !.r.methodProfiles =
            setProfiles(@, acc, Dedup(MapKeys(acc.inc) \o MapKeys(acc.exc)), 1)])

----------------------------------------------------------------------------
(* Container driver                                                        *)

\* [threw, s]: what a callee hands back to the try of parseObjectStream
Returned(s) == [threw |-> FALSE, s |-> s]

Threw(s, off) == [threw |-> TRUE, s |-> [s EXCEPT !.p.offset = off]]

RECURSIVE skipToNextObject(_, _)
skipToNextObject(buf, off) ==
    IF ~(remaining(buf, off) > 0) THEN off
    ELSE IF byteAt(buf, off) = EndObject THEN off + 1
    ELSE IF byteAt(buf, off) = BeginPrivateObject THEN off
    ELSE skipToNextObject(buf, off + 1)

RECURSIVE skipToEndObject(_, _, _)
skipToEndObject(buf, off, depth) ==
    IF ~(remaining(buf, off) > 0 /\ depth > 0) THEN off
    ELSE LET tag == byteAt(buf, off)
         IN  IF tag = EndObject THEN skipToEndObject(buf, off + 1, depth - 1)
             ELSE IF tag = BeginPrivateObject \/ tag = BeginObject
             THEN skipToEndObject(buf, off + 1, depth + 1)
             ELSE IF tag = Blob /\ remaining(buf, off + 1) >= 4
             THEN LET size == readInt32LE(buf, off + 1)
                  IN  IF ~size.ok THEN off + 1
                      ELSE IF size.val > 0 /\ size.val < remaining(buf, size.off)
                      THEN skipToEndObject(buf, skip(buf, size.off, size.val), depth)
                      ELSE skipToEndObject(buf, size.off, depth)
             ELSE skipToEndObject(buf, off + 1, depth)

IsBlockType(typeName) ==
    typeName \in {Str_MetadataBlock, Str_EventBlock, Str_StackBlock, Str_SPBlock}

\* blockSize <= 0 || blockSize > 100000000
invalidBlockSize(blockSize) == blockSize <= 0 \/ blockSize > MaxBlockSize

\* a payload read where the size field ends
alignPad_None(currentPos) == 0

\* (4 - (currentPos & 3)) & 3
alignPad(currentPos) == (4 - (currentPos % 4)) % 4

\* The catch of parseObjectPayload is not modelled: every read in its try is
\* guarded by hasBytes and processBlock catches its own errors.
parseObjectPayload(s, buf, typeInfo) ==
    LET typeName    == typeInfo.typeName
        startOffset == s.p.offset
    IN  IF typeName = Str_Trace
        THEN LET s1 == IF hasBytes(buf, startOffset, 48)
                       THEN [parseTraceBlob(s, readBytes(buf, startOffset, 48).val)
                                EXCEPT !.p.offset = startOffset + 48]
                       ELSE s
             IN  [s1 EXCEPT !.p.offset = skipToNextObject(buf, @)]
        ELSE IF IsBlockType(typeName)
        THEN IF ~hasBytes(buf, startOffset, 4) THEN NoteFailure(s, "BlockSizeMissing")
             ELSE LET blockSize  == readInt32LE(buf, startOffset)
                      contentOff == skip(buf, blockSize.off, alignPad(blockSize.off))
                  IN  IF invalidBlockSize(blockSize.val)
                      THEN [NoteFailure(s, "BlockSizeInvalid")
                               EXCEPT !.p.offset = skipToNextObject(buf, startOffset)]
                      ELSE IF ~hasBytes(buf, contentOff, blockSize.val)
                      THEN [NoteFailure(s, "BlockTruncated")
                               EXCEPT !.p.offset = skipToNextObject(buf, contentOff)]
                      ELSE [processBlock(s, typeName,
                                         readBytes(buf, contentOff, blockSize.val).val)
                               EXCEPT !.p.offset =
                                   skipToNextObject(buf, contentOff + blockSize.val)]
        ELSE [s EXCEPT !.p.offset = skipToNextObject(buf, @)]

\* [threw, s, typeInfo] with a type
TypeRead(s, typeInfo) == [threw |-> FALSE, s |-> s, typeInfo |-> typeInfo]

\* [threw, s, typeInfo] of the early returns: no payload is parsed
NoType(s) == [threw |-> FALSE, s |-> s, typeInfo |-> Null]

\* [threw, s, typeInfo] of a read past the end of the buffer
TypeThrew(s, off) == [threw |-> TRUE, s |-> [s EXCEPT !.p.offset = off], typeInfo |-> Null]

\* int32 version, int32 minReaderVersion, int32 typeNameLength, ASCII typeName;
\* [threw, s, typeInfo], the cursor of s after the definition
readTypeDefinition(s, buf, off) ==
    Bind(readFields(buf, off, <<"i32", "i32", "i32">>), LAMBDA h :
        IF ~h.ok THEN TypeThrew(s, h.off)
        ELSE Bind(readAsciiString(buf, h.off, h.val[3]), LAMBDA name :
                 IF ~name.ok THEN TypeThrew(s, name.off)
                 ELSE Bind([typeIndex        |-> s.p.nextTypeIndex,
                            version          |-> h.val[1],
                            minReaderVersion |-> h.val[2],
                            typeName         |-> name.val], LAMBDA typeInfo :
                          TypeRead([s EXCEPT !.p.offset = name.off,
                                             !.p.nextTypeIndex = @ + 1,
                                             !.p.typeRegistry =
                                                 MapSet(@, typeInfo.typeIndex, typeInfo)],
                                   typeInfo))))

\* this.errors.push(`Unknown type index: ${typeIndex}`)
pushUnknownTypeIndex(s, typeIndex) ==
    [NoteFailure(s, "UnknownTypeIndex")
        EXCEPT !.p.errors = Append(@, Err("Unknown type index", <<>>, typeIndex))]

\* consume the EndObject that closes a type-reference object, if it is there
closeTypeReference(buf, off) ==
    IF hasBytes(buf, off, 1) /\ byteAt(buf, off) = EndObject THEN off + 1 ELSE off

\* const typeIndex = readVarUInt(); typeInfo = typeRegistry.get(typeIndex);
\* wrapped tells the reference from the direct index of the older format
readTypeIndex(s, buf, off, wrapped) ==
    Bind(readVarUInt(buf, off), LAMBDA typeIndex :
        IF ~typeIndex.ok THEN TypeThrew(s, typeIndex.off)
        ELSE IF ~MapHas(s.p.typeRegistry, typeIndex.val)
        THEN NoType([pushUnknownTypeIndex(s, typeIndex.val)
                 EXCEPT !.p.offset = IF wrapped THEN skipToEndObject(buf, typeIndex.off, 1)
                                      ELSE typeIndex.off])
        ELSE TypeRead([s EXCEPT !.p.offset = IF wrapped
                                              THEN closeTypeReference(buf, typeIndex.off)
                                              ELSE typeIndex.off],
                      MapGet(s.p.typeRegistry, typeIndex.val)))

\* a new type: the definition, and the EndObject of a wrapped reference
readNewType(s, buf, off, wrapped) ==
    Bind(readTypeDefinition(s, buf, off), LAMBDA d :
        IF d.threw \/ ~wrapped THEN d
        ELSE [d EXCEPT !.s.p.offset = closeTypeReference(buf, @)])

\* the type reference at the head of parseBeginPrivateObject: the branch is
\* chosen by the next byte, and by the one after a nested BeginPrivateObject
typeReferenceAt(s, buf, off, wrapped) ==
    Bind(peekByte(buf, off), LAMBDA typeRefByte :
        IF ~typeRefByte.ok THEN TypeThrew(s, off)
        ELSE IF typeRefByte.val = NullReference THEN readNewType(s, buf, off + 1, wrapped)
        ELSE readTypeIndex(s, buf, off, wrapped))

readTypeReference(s, buf) ==
    Bind(peekByte(buf, s.p.offset), LAMBDA nextByte :
        IF ~nextByte.ok THEN TypeThrew(s, s.p.offset)
        ELSE Bind(nextByte.val = BeginPrivateObject, LAMBDA wrapped :
                 typeReferenceAt(s, buf, IF wrapped THEN s.p.offset + 1 ELSE s.p.offset,
                                 wrapped)))

\* s.p.offset is just after the BeginPrivateObject tag
parseBeginPrivateObject(s, buf) ==
    Bind(readTypeReference(s, buf), LAMBDA t :
        IF t.threw THEN [threw |-> TRUE, s |-> t.s]
        ELSE IF t.typeInfo = Null THEN Returned(t.s)
        ELSE Returned(parseObjectPayload(t.s, buf, t.typeInfo)))

\* the Blob case of parseObjectStream
skipTopLevelBlob(s, buf) ==
    LET off0 == s.p.offset
    IN  IF ~hasBytes(buf, off0, 4) THEN Returned(s)
        ELSE LET size == readInt32LE(buf, off0)
             IN  IF ~size.ok THEN Threw(s, off0)
                 ELSE IF size.val > 0 /\ size.val <= remaining(buf, size.off)
                 THEN Returned([s EXCEPT !.p.offset = skip(buf, size.off, size.val)])
                 ELSE Returned([s EXCEPT !.p.offset = size.off])

\* the try block of one iteration of parseObjectStream: [threw, s]
walkObject(s, buf) ==
    LET tag == readByte(buf, s.p.offset)
        s1  == [s EXCEPT !.p.offset = tag.off]
    IN  IF ~tag.ok THEN Threw(s, tag.off)
        ELSE IF tag.val = BeginPrivateObject THEN parseBeginPrivateObject(s1, buf)
        ELSE IF tag.val = Blob THEN skipTopLevelBlob(s1, buf)
        ELSE Returned(s1)

\* catch (err) { if (this.reader.remaining < 10) break; }
breaksWalk(buf, w) == w.threw /\ remaining(buf, w.s.p.offset) < 10

\* while (this.reader.remaining > 0 && objectCount < maxObjects)
walkContinues(buf, off, count) == remaining(buf, off) > 0 /\ count < maxObjects

\* `${meta.providerName}:${meta.eventId}` kept as the pair
RECURSIVE buildEventCounts(_, _, _, _)
buildEventCounts(counts, metadata, acc, n) ==
    IF n > Len(counts) THEN acc
    ELSE IF MapHas(metadata, counts[n].k)
    THEN LET meta == MapGet(metadata, counts[n].k)
         IN  buildEventCounts(counts, metadata,
                 MapAdd(acc, <<meta.providerName, meta.eventId>>, counts[n].v), n + 1)
    ELSE buildEventCounts(counts, metadata, acc, n + 1)

\* the tail of the try block of parse(), after parseObjectStream
finishParse(s) ==
    [computeMethodProfiles([s EXCEPT !.r.metadata = s.p.metadata,
                                     !.r.stacks = s.p.stacks,
                                     !.r.errors = s.p.errors])
        EXCEPT !.r.debugInfo =
            [totalEvents        |-> s.p.debugInfo.totalEvents,
             allocationEvents   |-> s.p.debugInfo.allocationEvents,
             providers          |-> s.p.debugInfo.providers,
             eventCounts        |-> buildEventCounts(s.p.debugInfo.eventCountsByMetadataId,
                                                     s.p.metadata, EmptyMap, 1),
             samplingIntervalMs |-> 1]]

\* validateHeader without the banner comparison
validateHeader_AnyBanner(buf) ==
    IF Len(buf) < MinFileLength THEN [ok |-> FALSE, off |-> 0, error |-> Err("Parse error: File too small", <<>>, Len(buf))]
    ELSE IF SubSeq(buf, 1, 8) # Str_Nettrace
    THEN [ok |-> FALSE, off |-> 0, error |-> Err("Parse error: Invalid file: missing Nettrace magic header", <<>>, 0)]
    ELSE [ok |-> TRUE, off |-> MinFileLength, error |-> Null]

\* the validation at the head of parse(): [ok, off, error]
validateHeader(buf) ==
    IF Len(buf) < MinFileLength THEN [ok |-> FALSE, off |-> 0, error |-> Err("Parse error: File too small", <<>>, Len(buf))]
    ELSE IF SubSeq(buf, 1, 8) # Str_Nettrace
    THEN [ok |-> FALSE, off |-> 0, error |-> Err("Parse error: Invalid file: missing Nettrace magic header", <<>>, 0)]
    ELSE LET headerLength == readInt32LE(buf, 8)
             headerString == readAsciiString(buf, headerLength.off, headerLength.val)
         IN  IF ~headerString.ok
             THEN [ok |-> FALSE, off |-> headerLength.off,
                   error |-> Err("Parse error: End of buffer reading string", <<>>, headerLength.val)]
             ELSE IF ~StartsWith(headerString.val, Str_FastSerialization)
             THEN [ok |-> FALSE, off |-> headerString.off,
                   error |-> Err("Parse error: Invalid serialization header", headerString.val, 0)]
             ELSE [ok |-> TRUE, off |-> headerString.off, error |-> Null]

----------------------------------------------------------------------------
(* Encoders used to draw the inputs (the inverse of the readers above)     *)

RECURSIVE EncLE(_, _)
EncLE(n, width) == IF width = 0 THEN <<>> ELSE <<n % 256>> \o EncLE(n \div 256, width - 1)

EncU16(n) == EncLE(n, 2)
EncI16(n) == EncLE(IF n < 0 THEN n + 65536 ELSE n, 2)
EncU32(n) == EncLE(n, 4)
\* two's complement without leaving 32-bit integers
EncI32(n) == IF n < 0 THEN EncLE(n + 16777216, 3) \o <<255>> ELSE EncLE(n, 4)
EncU64(n) == EncLE(n, 8)

RECURSIVE EncVarUInt(_)
EncVarUInt(n) == IF n < 128 THEN <<n>> ELSE <<128 + (n % 128)>> \o EncVarUInt(n \div 128)

RECURSIVE EncChars(_)
EncChars(str) == IF str = <<>> THEN <<>> ELSE EncU16(Head(str)) \o EncChars(Tail(str))

\* null-terminated UTF-16LE
EncUTF16(str) == EncChars(str) \o <<0, 0>>

Zeros(n) == [i \in 1..n |-> 0]

\* "Nettrace", int32 length, "!FastSerialization.1"
ValidHeader == Str_Nettrace \o EncI32(Len(Str_FastSerialization)) \o Str_FastSerialization

\* the type reference that opens an object: a definition the first time a
\* type name is used, a back-reference afterwards
TypeDefinitionBytes(name) ==
    <<BeginPrivateObject, BeginPrivateObject, NullReference>>
        \o EncI32(4) \o EncI32(4) \o EncI32(Len(name)) \o name \o <<EndObject>>

TypeReferenceBytes(index) ==
    <<BeginPrivateObject, BeginPrivateObject>> \o EncVarUInt(index) \o <<EndObject>>

IndexOf(seq, x) == CHOOSE i \in 1..Len(seq) : seq[i] = x

OpenObject(name, known) ==
    IF name \in Range(known) THEN TypeReferenceBytes(IndexOf(known, name) - 1)
    ELSE TypeDefinitionBytes(name)

\* 48-byte Trace payload
TracePayload(pointerSize) ==
    EncI16(2025) \o EncI16(11) \o EncI16(6) \o EncI16(29) \o EncI16(16) \o EncI16(26)
        \o EncI16(8) \o EncI16(0) \o EncU64(1000) \o EncU64(10000000)
        \o EncI32(pointerSize) \o EncI32(42) \o EncI32(8) \o EncI32(1)

\* event-schema descriptor
SchemaPayload(id, provider, eventId) ==
    EncI32(id) \o EncUTF16(provider) \o EncI32(eventId) \o EncUTF16(<<69>>)
        \o EncU64(1) \o EncI32(1) \o EncI32(4) \o EncI32(0)

\* one compressed event: flags, then the fields the flags announce
CompressedEvent(flags, metadataId, threadId, stackId, delta, payload) ==
    <<flags>>
        \o (IF Bit(flags, 1) THEN EncVarUInt(metadataId) ELSE <<>>)
        \o (IF Bit(flags, 2) THEN <<0, 0, 0>> ELSE <<>>)
        \o (IF Bit(flags, 4) THEN EncVarUInt(threadId) ELSE <<>>)
        \o (IF Bit(flags, 8) THEN EncVarUInt(stackId) ELSE <<>>)
        \o EncVarUInt(delta)
        \o (IF Bit(flags, 128) THEN EncVarUInt(Len(payload)) \o payload ELSE <<>>)

\* one fixed-layout event
UncompressedEvent(metadataId, threadId, stackId, timestamp, payload) ==
    LET body == EncU32(metadataId) \o EncU32(0) \o EncU64(threadId) \o EncU64(0)
                    \o EncU32(0) \o EncU32(stackId) \o EncU64(timestamp) \o Zeros(32)
                    \o EncU32(Len(payload)) \o payload
        padded == body \o Zeros((4 - (Len(body) % 4)) % 4)
    IN  EncU32(Len(padded)) \o padded

MetadataBlockContent(compressed, events) ==
    EncI16(4) \o EncI16(IF compressed THEN 1 ELSE 0) \o Concat(events)

EventBlockContent(compressed, events) ==
    EncI16(20) \o EncI16(IF compressed THEN 1 ELSE 0) \o EncU64(0) \o EncU64(0)
        \o Concat(events)

\* GCAllocationTick payload: amount, kind, clrInstanceId, amount64, typeId, name
AllocationPayload(amount, amount64, pointerSize, typeName) ==
    EncU32(amount) \o EncU32(0) \o EncU16(0) \o EncU64(amount64)
        \o Zeros(pointerSize) \o EncUTF16(typeName)

MethodLoadPayload(methodId, start, size, ns, name) ==
    EncU64(methodId) \o EncU64(1) \o EncU64(start) \o EncU32(size) \o EncU32(0)
        \o EncU32(0) \o EncUTF16(ns) \o EncUTF16(name) \o EncUTF16(<<>>)

StackEntry(bytes) == EncU32(Len(bytes)) \o bytes

StackBlockContent(firstId, count, entries) ==
    EncU32(firstId) \o EncU32(count) \o Concat(entries)

\* a block object appended to a file of length at: size, padding to the
\* 4-byte grid of the file, content, EndObject
BlockBytes(at, declaredSize, content) ==
    EncI32(declaredSize) \o Zeros(alignPad(at + 4)) \o content \o <<EndObject>>

----------------------------------------------------------------------------
(* Input files: a valid or invalid header followed by a few objects        *)

MaxItems == 2
MaxWalk == 40

Str_T == <<84>>
Str_NS == <<78, 83>>
Str_Foo == <<70, 111, 111>>

\* metadata ids the files use; the last has no schema
SchemaIds == <<7, 8, 9, 99>>
AllocSchemaId == SchemaIds[1]
SampleSchemaId == SchemaIds[2]
MethodSchemaId == SchemaIds[3]
UnknownSchemaId == SchemaIds[4]

\* an object of the file: its type name, its content and the block size it
\* declares as an offset from the real one
Item(kind, name, content, sizeDelta) ==
    [kind |-> kind, name |-> name, content |-> content, sizeDelta |-> sizeDelta]

SchemaEvent(id, provider, eventId) ==
    CompressedEvent(129, 0, 0, 0, 0, SchemaPayload(id, provider, eventId))

AllSchemas ==
    MetadataBlockContent(TRUE,
        <<SchemaEvent(AllocSchemaId, DOTNET_RUNTIME_PROVIDER, GC_ALLOCATION_TICK_EVENT_ID),
          SchemaEvent(SampleSchemaId, SAMPLE_PROFILER_PROVIDER, 0),
          SchemaEvent(MethodSchemaId, DOTNET_RUNTIME_PROVIDER, METHOD_LOAD_VERBOSE_EVENT_ID)>>)

AllocEvent(stackId) ==
    CompressedEvent(137, AllocSchemaId, 0, stackId, 5, AllocationPayload(64, 128, 8, Str_T))

MixedEvents ==
    EventBlockContent(TRUE,
        <<AllocEvent(1),
          CompressedEvent(137, SampleSchemaId, 0, 1, 3, <<0, 0, 0, 0>>),
          CompressedEvent(129, MethodSchemaId, 0, 0, 2,
                          MethodLoadPayload(1, 4096, 256, Str_NS, Str_Foo)),
          CompressedEvent(129, UnknownSchemaId, 0, 0, 1, <<1, 2>>)>>)

\* a decodable header that announces no payload
EmptyPayloadEvents ==
    EventBlockContent(TRUE, <<CompressedEvent(9, SampleSchemaId, 0, 1, 4, <<>>)>>)

ShortAllocEvents ==
    EventBlockContent(TRUE,
        <<CompressedEvent(137, AllocSchemaId, 0, 1, 1, <<1, 0, 0, 0>>),
          <<255>>>>)

FixedLayoutEvents ==
    EventBlockContent(FALSE,
        <<UncompressedEvent(AllocSchemaId, 3, 1, 9, AllocationPayload(32, 48, 8, Str_T))>>)

OneStack == StackBlockContent(1, 1, <<StackEntry(EncU64(4096) \o EncU64(8192))>>)

Menu ==
    {Item("trace", Str_Trace, TracePayload(8), 0),
     Item("trace", Str_Trace, TracePayload(4), 0),
     \* a pointer size that is neither 4 nor 8
     Item("trace", Str_Trace, TracePayload(16), 0),
     Item("block", Str_MetadataBlock, AllSchemas, 0),
     Item("block", Str_EventBlock, MixedEvents, 0),
     Item("block", Str_EventBlock, EmptyPayloadEvents, 0),
     Item("block", Str_EventBlock, ShortAllocEvents, 0),
     Item("block", Str_EventBlock, FixedLayoutEvents, 0),
     Item("block", Str_StackBlock, OneStack, 0),
     Item("block", Str_SPBlock, <<0, 0, 0, 0>>, 0),
     \* declared block size larger than what is left of the file
     Item("block", Str_EventBlock, EmptyPayloadEvents, 1000),
     \* declared block size 0
     Item("block", Str_StackBlock, <<>>, 0),
     \* block content shorter than the block header
     Item("block", Str_MetadataBlock, <<4, 0>>, 0),
     \* a type nobody knows
     Item("block", Str_Foo, <<9, 9, 9>>, 0),
     \* a back-reference to a type index that was never defined
     Item("raw", <<>>, <<BeginPrivateObject, BeginPrivateObject, 9, EndObject, EndObject>>
                          \o Zeros(12), 0),
     \* a type definition whose name length is negative
     Item("raw", <<>>, <<BeginPrivateObject, BeginPrivateObject, NullReference>>
                          \o EncI32(4) \o EncI32(4) \o EncI32(-15) \o Zeros(12), 0),
     Item("raw", <<>>, <<NullReference, Blob>> \o EncI32(2) \o <<0, 0>>, 0),
     \* two objects of new types, an object of the first of them again, and an
     \* object whose type is a back-reference to index 1
     Item("raw", <<>>, TypeDefinitionBytes(Str_Foo) \o <<EndObject>>
                          \o TypeDefinitionBytes(Str_NS) \o <<EndObject>>
                          \o TypeReferenceBytes(0) \o <<EndObject>>
                          \o TypeReferenceBytes(1) \o <<EndObject>>, 0),
     \* a type definition of the older format whose name runs past the file
     Item("raw", <<>>, <<BeginPrivateObject, NullReference>>
                          \o EncI32(4) \o EncI32(4) \o EncI32(1000) \o Str_T, 0)}

\* the bytes of one item appended to a file that holds `file` already
ItemBytes(item, file, known) ==
    IF item.kind = "raw" THEN item.content
    ELSE LET open == OpenObject(item.name, known)
         IN  IF item.kind = "trace" THEN open \o item.content \o <<EndObject>>
             ELSE open \o BlockBytes(Len(file) + Len(open),
                                     Len(item.content) + item.sizeDelta, item.content)

RECURSIVE BuildFile(_, _, _)
BuildFile(file, known, items) ==
    IF items = <<>> THEN file
    ELSE LET item == Head(items)
         IN  BuildFile(file \o ItemBytes(item, file, known),
                       IF item.kind = "raw" \/ item.name \in Range(known) THEN known
                       ELSE Append(known, item.name),
                       Tail(items))

ItemSeqs == UNION {[1..n -> Menu] : n \in 0..MaxItems}

\* files a validation error ends: too short, wrong magic, wrong banner, banner
\* longer than the file
InvalidFiles ==
    {Zeros(8),
     ValidHeader \o <<NullReference>> \o Zeros(3),
     <<110>> \o Tail(ValidHeader) \o TypeDefinitionBytes(Str_Trace) \o TracePayload(8),
     Str_Nettrace \o EncI32(20) \o <<63>> \o Tail(Str_FastSerialization)
         \o TypeDefinitionBytes(Str_Trace) \o TracePayload(8),
     Str_Nettrace \o EncI32(-4) \o Str_FastSerialization \o Zeros(8),
     Str_Nettrace \o EncI32(500) \o Str_FastSerialization \o Zeros(8)}

Files == {BuildFile(ValidHeader, <<>>, items) : items \in ItemSeqs} \cup InvalidFiles

----------------------------------------------------------------------------
(* parse(): one action per phase, one per iteration of the object walk     *)

Cur == St(parser, result, failures, decoded)

InitParse ==
    /\ buffer \in Files
    /\ pc = "start"
    /\ parser = NewParser
    /\ result = NewResult
    /\ objectCount = 0
    /\ iterStart = 0
    /\ failures = <<>>
    /\ decoded = <<>>
    /\ lastOp = <<>>
    /\ flame = <<>>

\* parse() up to the call of parseObjectStream, or to the catch
ParseBegin ==
    /\ pc = "start"
    /\ Bind(validateHeader(buffer), LAMBDA v :
           IF v.ok
           THEN /\ parser' = [parser EXCEPT !.offset = v.off]
                /\ result' = result
                /\ pc' = "walk"
           ELSE /\ parser' = [parser EXCEPT !.offset = v.off]
                /\ result' = [result EXCEPT !.errors = Append(@, v.error)]
                /\ pc' = "done")
    /\ UNCHANGED <<buffer, objectCount, iterStart, failures, decoded, lastOp, flame>>

\* one iteration of the while loop of parseObjectStream
WalkStep ==
    /\ pc = "walk"
    /\ walkContinues(buffer, parser.offset, objectCount)
    /\ objectCount < MaxWalk
    /\ Bind(walkObject(Cur, buffer), LAMBDA w :
           /\ parser' = w.s.p
           /\ result' = w.s.r
           /\ failures' = IF w.threw THEN Append(w.s.f, "ObjectWalk") ELSE w.s.f
           /\ decoded' = w.s.ev
           /\ pc' = IF breaksWalk(buffer, w) THEN "finish" ELSE "walk")
    /\ objectCount' = objectCount + 1
    /\ iterStart' = parser.offset
    /\ UNCHANGED <<buffer, lastOp, flame>>

\* the loop is left; the rest of the try block of parse(), and the return
ParseEnd ==
    /\ \/ pc = "finish"
       \/ pc = "walk" /\ ~walkContinues(buffer, parser.offset, objectCount)
    /\ Bind(finishParse(Cur), LAMBDA s :
           /\ parser' = s.p
           /\ result' = s.r)
    /\ pc' = "done"
    /\ UNCHANGED <<buffer, objectCount, iterStart, failures, decoded, lastOp, flame>>

NextParse == ParseBegin \/ WalkStep \/ ParseEnd

SpecParse == InitParse /\ [][NextParse]_vars

----------------------------------------------------------------------------
(* JavaScript numbers in [0, 4): IEEE-754 doubles, kept as their binary     *)
(* digits from 2^1 down to 2^-FracBits. A quotient of counts of at most     *)
(* 2^(FracBits - 53) and the sums of such quotients have no lower digit.    *)

FracBits == 60

NumberBits == FracBits + 2

NumberZero == [i \in 1..NumberBits |-> 0]

NumberOne == [i \in 1..NumberBits |-> IF i = 2 THEN 1 ELSE 0]

\* the digits of r / q from 2^0 down, and what is left of r
RECURSIVE quotientDigits(_, _)
quotientDigits(st, q) ==
    IF Len(st.digits) = NumberBits THEN st
    ELSE quotientDigits([digits |-> Append(st.digits, st.rest \div q),
                         rest   |-> (st.rest % q) * 2], q)

\* one unit added at position pos
RECURSIVE carryInto(_, _)
carryInto(digits, pos) ==
    IF pos = 0 THEN digits
    ELSE IF digits[pos] = 0 THEN [digits EXCEPT ![pos] = 1]
    ELSE carryInto([digits EXCEPT ![pos] = 0], pos - 1)

\* round to nearest, ties to even, on 53 significant digits; sticky tells
\* that the exact value has digits below 2^-FracBits
roundToDouble(digits, sticky) ==
    IF \A i \in 1..NumberBits : digits[i] = 0 THEN digits
    ELSE LET lead == CHOOSE i \in 1..NumberBits :
                         digits[i] = 1 /\ \A j \in 1..(i - 1) : digits[j] = 0
             last == lead + 52
         IN  IF last >= NumberBits THEN digits
             ELSE LET below == sticky \/ \E i \in (last + 2)..NumberBits : digits[i] = 1
                      kept  == [i \in 1..NumberBits |-> IF i <= last THEN digits[i] ELSE 0]
                  IN  IF digits[last + 1] = 1 /\ (below \/ digits[last] = 1)
                      THEN carryInto(kept, last)
                      ELSE kept

\* the digits of a + b, exactly
RECURSIVE exactSum(_, _, _)
exactSum(a, b, st) ==
    IF Len(st.digits) = NumberBits THEN st.digits
    ELSE Bind(NumberBits - Len(st.digits), LAMBDA pos :
             exactSum(a, b, [digits |-> <<(a[pos] + b[pos] + st.carry) % 2>> \o st.digits,
                             carry  |-> (a[pos] + b[pos] + st.carry) \div 2]))

\* p / q of two counts, 0 <= p <= q, q > 0
numberDivide(p, q) ==
    Bind(quotientDigits([digits |-> <<0>>, rest |-> p], q), LAMBDA d :
        roundToDouble(d.digits, d.rest # 0))

\* a + b
numberAdd(a, b) ==
    roundToDouble(exactSum(a, b, [digits |-> <<>>, carry |-> 0]), FALSE)

\* a <= b
\* the digits are compared from the highest down
NumberLeq(a, b) ==
    \/ a = b
    \/ \E i \in 1..NumberBits :
           /\ a[i] < b[i]
           /\ \A j \in 1..(i - 1) : a[j] = b[j]

----------------------------------------------------------------------------
(* Flame-graph builder of the editor provider                              *)

\* the interval list buildFlameGraphData builds from result.methods
flameMethodAddresses(methods) ==
    LET withStart == SelectSeq(MapValues(methods), HasStartAddress)
        fullName(method) ==
            IF method.methodNamespace # <<>>
            THEN method.methodNamespace \o <<46>> \o method.methodName
            ELSE IF method.methodName # <<>> THEN method.methodName
            ELSE Str_Method0x \o toString16(method.methodStartAddress)
        entries == [i \in 1..Len(withStart) |->
                       [address    |-> withStart[i].methodStartAddress,
                        endAddress |-> withStart[i].methodStartAddress + withStart[i].methodSize,
                        name       |-> fullName(withStart[i])]]
        sorted == SortStable([i \in 1..Len(entries) |->
                                 [key |-> entries[i].address, val |-> entries[i]]])
    IN  [i \in 1..Len(sorted) |-> sorted[i].val]

RECURSIVE getMethodNameLoop(_, _, _, _)
getMethodNameLoop(ma, addr, left, right) ==
    IF ~(left <= right) THEN Str_0x \o toString16(addr)
    ELSE LET mid == (left + right) \div 2
             entry == ma[mid + 1]
         IN  IF addr >= entry.address /\ addr < entry.endAddress THEN entry.name
             ELSE IF addr < entry.address THEN getMethodNameLoop(ma, addr, left, mid - 1)
             ELSE getMethodNameLoop(ma, addr, mid + 1, right)

getMethodName(ma, addr) == getMethodNameLoop(ma, addr, 0, Len(ma) - 1)

NewFlameNode(name) ==
    [name |-> name, samples |-> 0, size |-> 0, types |-> EmptyMap, children |-> EmptyMap]

\* one entry of sampleData; hasTypes is ('types' in data && data.types)
SampleDatum(count, size, hasTypes, types) ==
    [count |-> count, size |-> size, hasTypes |-> hasTypes, types |-> types]

RECURSIVE cpuSampleData(_, _, _)
cpuSampleData(stacks, acc, n) ==
    IF n > Len(stacks) THEN acc
    ELSE cpuSampleData(stacks,
                       IF Len(stacks[n].v.addresses) > 0
                       THEN MapSet(acc, stacks[n].v.stackId, SampleDatum(1, 0, FALSE, EmptyMap))
                       ELSE acc,
                       n + 1)

RECURSIVE allocationSampleData(_, _, _)
allocationSampleData(samples, acc, n) ==
    IF n > Len(samples) THEN acc
    ELSE allocationSampleData(samples,
                              MapSet(acc, samples[n].k,
                                     SampleDatum(samples[n].v.count, samples[n].v.size,
                                                 TRUE, samples[n].v.types)),
                              n + 1)

sampleDataOf(r, mode) ==
    IF mode = "cpu" THEN cpuSampleData(r.stacks, EmptyMap, 1)
    ELSE allocationSampleData(r.allocationSamples, EmptyMap, 1)

\* the loop that merges data.types into a node's types
RECURSIVE mergeTypes(_, _, _)
mergeTypes(types, dataTypes, n) ==
    IF n > Len(dataTypes) THEN types
    ELSE LET typeName == dataTypes[n].k
             typeData == dataTypes[n].v
         IN  mergeTypes(IF MapHas(types, typeName)
                        THEN MapSet(types, typeName,
                                    [count |-> MapGet(types, typeName).count + typeData.count,
                                     size  |-> MapGet(types, typeName).size + typeData.size])
                        ELSE MapSet(types, typeName,
                                    [count |-> typeData.count, size |-> typeData.size]),
                        dataTypes, n + 1)

\* samples += data.count; size += data.size; merge of the types
addSample(node, data) ==
    [node EXCEPT !.samples = @ + data.count,
                 !.size    = @ + data.size,
                 !.types   = IF data.hasTypes THEN mergeTypes(@, data.types, 1) ELSE @]

\* the loop over reversedAddrs, from the node current
RECURSIVE descend(_, _, _, _)
descend(current, ma, addrs, data) ==
    IF addrs = <<>> THEN current
    ELSE LET name == getMethodName(ma, Head(addrs))
             child == IF MapHas(current.children, name) THEN MapGet(current.children, name)
                      ELSE NewFlameNode(name)
         IN  [current EXCEPT !.children =
                 MapSet(@, name, descend(addSample(child, data), ma, Tail(addrs), data))]

\* the root credited before the stack is looked up
addStackToTree_CreditFirst(root, ma, stacks, stackId, data) ==
    IF ~MapHas(stacks, stackId) \/ MapGet(stacks, stackId).addresses = <<>>
    THEN addSample(root, data)
    ELSE descend(addSample(root, data), ma, Reverse(MapGet(stacks, stackId).addresses), data)

\* one iteration of the loop over sampleData
addStackToTree(root, ma, stacks, stackId, data) ==
    IF ~MapHas(stacks, stackId) \/ MapGet(stacks, stackId).addresses = <<>> THEN root
    ELSE descend(addSample(root, data), ma, Reverse(MapGet(stacks, stackId).addresses), data)

RECURSIVE buildTree(_, _, _, _, _)
buildTree(root, ma, stacks, sampleData, n) ==
    IF n > Len(sampleData) THEN root
    ELSE buildTree(addStackToTree(root, ma, stacks, sampleData[n].k, sampleData[n].v),
                   ma, stacks, sampleData, n + 1)

\* node.types as the array sorted by size, largest first
typesArrayOf(node, mode) ==
    IF mode = "allocation" /\ Len(node.types) > 0
    THEN LET sorted == SortStable([i \in 1..Len(node.types) |->
                          [key |-> 0 - node.types[i].v.size,
                           val |-> [name  |-> node.types[i].k,
                                    count |-> node.types[i].v.count,
                                    size  |-> node.types[i].v.size]]])
         IN  [defined |-> TRUE, items |-> [i \in 1..Len(sorted) |-> sorted[i].val]]
    ELSE [defined |-> FALSE, items |-> <<>>]

\* x and width are JavaScript numbers
RECURSIVE flatten(_, _, _, _, _, _, _)
RECURSIVE flattenChildren(_, _, _, _, _, _, _)
flatten(node, x, width, depth, mode, totalSamples, nodes) ==
    LET own == IF node.name # Str_root
               THEN Append(nodes, [name    |-> node.name,
                                   x       |-> x,
                                   width   |-> width,
                                   depth   |-> depth,
                                   samples |-> node.samples,
                                   size    |-> node.size,
                                   types   |-> typesArrayOf(node, mode)])
               ELSE nodes
        kids == MapValues(node.children)
        sortedChildren == SortStable([i \in 1..Len(kids) |->
                                         [key |-> 0 - kids[i].samples, val |-> kids[i]]])
    IN  flattenChildren([i \in 1..Len(sortedChildren) |-> sortedChildren[i].val],
                        1, x, depth, mode, totalSamples, own)

flattenChildren(children, n, childX, depth, mode, totalSamples, nodes) ==
    IF n > Len(children) THEN nodes
    ELSE Bind(numberDivide(children[n].samples, totalSamples), LAMBDA actualWidth :
             flattenChildren(children, n + 1, numberAdd(childX, actualWidth), depth, mode,
                             totalSamples,
                             flatten(children[n], childX, actualWidth, depth + 1,
                                     mode, totalSamples, nodes)))

\* [built, root, totalSamples, nodes]: built is FALSE on the early returns
buildFlameGraphData(r, mode) ==
    IF \/ Len(r.stacks) = 0
       \/ (mode = "cpu" /\ Len(r.methodProfiles) = 0)
       \/ (mode = "allocation" /\ Len(r.allocationSamples) = 0)
    THEN [built |-> FALSE, root |-> NewFlameNode(Str_root), totalSamples |-> 0, nodes |-> <<>>]
    ELSE LET root == buildTree(NewFlameNode(Str_root), flameMethodAddresses(r.methods),
                               r.stacks, sampleDataOf(r, mode), 1)
         IN  [built        |-> TRUE,
              root         |-> root,
              totalSamples |-> root.samples,
              nodes        |-> flatten(root, NumberZero, NumberOne, -1, mode,
                                       root.samples, <<>>)]

----------------------------------------------------------------------------
(* Claims on parse()                                                       *)

\* the file opens with the magic and a length-prefixed banner that begins
\* with "!FastSerialization.1", stated on the bytes
MagicPresent(buf) == Len(buf) >= 8 /\ SubSeq(buf, 1, 8) = Str_Nettrace

BannerPresent(buf) ==
    /\ Len(buf) >= 32
    /\ SubSeq(buf, 13, 32) = Str_FastSerialization
    /\ buf[12] < 128
    /\ LE(buf, 8, 4) >= 20
    /\ 12 + LE(buf, 8, 4) <= Len(buf)

TablesEmpty(r) ==
    /\ r.metadata = EmptyMap
    /\ r.allocations = EmptyMap
    /\ r.stacks = EmptyMap
    /\ r.methods = EmptyMap
    /\ r.methodProfiles = EmptyMap
    /\ r.allocationSamples = EmptyMap

\* C1: when the magic or the banner is wrong, parse() returns a result with
\* traceInfo null, empty tables and exactly one error
C1_FatalHeaderResult ==
    (pc = "done" /\ ~(MagicPresent(buffer) /\ BannerPresent(buffer)))
        => /\ result.traceInfo = Null
           /\ TablesEmpty(result)
           /\ Len(result.errors) = 1

C1_Witness ==
    /\ pc = "done"
    /\ MagicPresent(buffer)
    /\ ~BannerPresent(buffer)
    /\ Len(buffer) > 60
    /\ Len(result.errors) = 1

\* the failures the claim lists: underflow inside a metadata, event or stack
\* block, a block size out of range or beyond the file, a short known payload
ListedFailures ==
    {"MetadataBlock", "MetadataEvent", "MetadataPayload", "EventBlock", "EventHeader",
     "EventSize", "StackBlock", "BlockSizeInvalid", "BlockTruncated",
     "AllocationPayload", "MethodLoadPayload", "MethodJitPayload"}

IsListed(kind) == kind \in ListedFailures

\* C2: every decode failure met during the walk adds at least one string to
\* the returned error list
C2_NoSilentFailure ==
    pc = "done" => Len(result.errors) >= Len(SelectSeq(failures, IsListed))

MetadataBlockItem == Item("block", Str_MetadataBlock, AllSchemas, 0)

TruncatedEventBlockItem == Item("block", Str_EventBlock, EmptyPayloadEvents, 1000)

\* a valid MetadataBlock followed by an EventBlock that declares more bytes
\* than the file has left
TruncatedScenario ==
    BuildFile(ValidHeader, <<>>, <<MetadataBlockItem, TruncatedEventBlockItem>>)

\* C3: on the truncated-block file parse() returns, the schemas are in the
\* metadata table and the error list has one entry that names EventBlock
C3_TruncatedBlockReported ==
    (pc = "done" /\ buffer = TruncatedScenario)
        => /\ MapKeySet(result.metadata) = {AllocSchemaId, SampleSchemaId, MethodSchemaId}
           /\ result.traceInfo = Null
           /\ Len(result.errors) = 1
           /\ result.errors[1].typeName = Str_EventBlock

\* C4: every iteration of the object walk leaves the cursor beyond where the
\* iteration found it
C4_WalkAdvances ==
    (pc \in {"walk", "finish"} /\ objectCount > 0) => parser.offset > iterStart

CountOf(seq, Test(_)) == Len(SelectSeq(seq, Test))

\* C6: every decoded event header adds one to the total counter and one to
\* the counter of its metadata id, whatever its payload size
C6_EveryDecodedEventCounted ==
    /\ parser.debugInfo.totalEvents = Len(decoded)
    /\ \A i \in 1..Len(decoded) :
          LET id == decoded[i].metadataId
              sameId(e) == e.metadataId = id
          IN  /\ MapHas(parser.debugInfo.eventCountsByMetadataId, id)
              /\ MapGet(parser.debugInfo.eventCountsByMetadataId, id)
                    = CountOf(decoded, sameId)

----------------------------------------------------------------------------
(* The aggregators, the post-pass and the flame graphs, event by event: the *)
(* stack and method tables are those a trace has loaded, each step is one   *)
(* dispatched event                                                         *)

MaxEvents == 3

Str_U == <<85>>
Str_Bar == <<66, 97, 114>>

Method(id, start, size, ns, name) ==
    [methodId           |-> id,
     moduleId           |-> 1,
     methodStartAddress |-> start,
     methodSize         |-> size,
     methodToken        |-> 0,
     methodFlags        |-> 0,
     methodNamespace    |-> ns,
     methodName         |-> name,
     methodSignature    |-> <<>>]

RECURSIVE MethodTable(_)
MethodTable(ms) ==
    IF ms = <<>> THEN EmptyMap
    ELSE MapSet(MethodTable(SubSeq(ms, 1, Len(ms) - 1)), ms[Len(ms)].methodId, ms[Len(ms)])

\* NS.Foo at 0x1000, Bar at 0x2000, a second NS.Foo at 0x3000
MethodTables ==
    {MethodTable(<<Method(1, 4096, 256, Str_NS, Str_Foo)>>),
     MethodTable(<<Method(1, 4096, 256, Str_NS, Str_Foo),
                   Method(2, 8192, 256, <<>>, Str_Bar),
                   Method(3, 12288, 16, Str_NS, Str_Foo)>>)}

RECURSIVE StackTable(_, _)
StackTable(firstId, stacks) ==
    IF stacks = <<>> THEN EmptyMap
    ELSE LET id == firstId + Len(stacks) - 1
         IN  MapSet(StackTable(firstId, SubSeq(stacks, 1, Len(stacks) - 1)), id,
                    [stackId |-> id, addresses |-> stacks[Len(stacks)]])

\* top of stack first; 0x5000 belongs to no method
StackTables ==
    {StackTable(1, <<>>),
     StackTable(1, << <<4096, 8192>> >>),
     StackTable(1, << <<4096, 8192>>, <<8192>> >>),
     StackTable(1, << <<4096, 8192>>, <<20480, 8192>> >>),
     StackTable(1, << <<4096, 4100, 12288>>, <<>> >>),
     StackTable(1, << <<20480>> >>)}

\* <<typeName, size, stackId>>
AllocationInputs == {<<Str_T, 8, 0>>, <<Str_T, 24, 1>>, <<Str_U, 8, 1>>, <<Str_T, 8, 2>>}

EventStackIds == {0, 1, 2}

InitEvents ==
    /\ pc = "events"
    /\ buffer = <<>>
    /\ \E stacks \in StackTables : parser = [NewParser EXCEPT !.stacks = stacks]
    /\ \E methods \in MethodTables : result = [NewResult EXCEPT !.methods = methods]
    /\ objectCount = 0
    /\ iterStart = 0
    /\ failures = <<>>
    /\ decoded = <<>>
    /\ lastOp = <<>>
    /\ flame = <<>>

\* a GCAllocationTick event reaches addAllocation
AllocationEvent ==
    /\ pc = "events"
    /\ objectCount < MaxEvents
    /\ \E in \in AllocationInputs :
          LET s == addAllocation(Cur, in[1], in[2], objectCount, in[3])
          IN  /\ parser' = s.p
              /\ result' = s.r
              /\ lastOp' = <<"addAllocation", in[1], in[2], in[3]>>
    /\ objectCount' = objectCount + 1
    /\ UNCHANGED <<pc, buffer, iterStart, failures, decoded, flame>>

\* a sample-profiler event reaches processCpuSample
CpuSampleEvent ==
    /\ pc = "events"
    /\ objectCount < MaxEvents
    /\ \E stackId \in EventStackIds :
          LET s == processCpuSample(Cur, stackId)
          IN  /\ parser' = s.p
              /\ result' = s.r
              /\ lastOp' = <<"processCpuSample", stackId>>
    /\ objectCount' = objectCount + 1
    /\ UNCHANGED <<pc, buffer, iterStart, failures, decoded, flame>>

\* the stream is consumed: the tail of parse()
EndOfTrace ==
    /\ pc = "events"
    /\ Bind(finishParse(Cur), LAMBDA s :
           /\ parser' = s.p
           /\ result' = s.r)
    /\ pc' = "done"
    /\ UNCHANGED <<buffer, objectCount, iterStart, failures, decoded, lastOp, flame>>

\* the editor builds both flame graphs from the parse result
RenderFlameGraphs ==
    /\ pc = "done"
    /\ buffer = <<>>
    /\ flame' = [cpu        |-> buildFlameGraphData(result, "cpu"),
                 allocation |-> buildFlameGraphData(result, "allocation")]
    /\ pc' = "rendered"
    /\ UNCHANGED <<buffer, parser, result, objectCount, iterStart, failures, decoded, lastOp>>

NextEvents == AllocationEvent \/ CpuSampleEvent \/ EndOfTrace \/ RenderFlameGraphs

SpecEvents == InitEvents /\ [][NextEvents]_vars

----------------------------------------------------------------------------
(* Claims on the aggregators, the post-pass and the flame graphs           *)

SizesOf(a) == [j \in 1..Len(a.allocations) |-> a.allocations[j].size]

\* C7: for every type in the allocation table, count is the length of the
\* individual list and totalSize the sum of the sizes in that list
C7_AllocationTotalsMatch ==
    \A i \in 1..Len(result.allocations) :
        LET a == result.allocations[i].v
        IN  /\ a.count = Len(a.allocations)
            /\ a.totalSize = SumSeq(SizesOf(a))

C7_Witness ==
    /\ Len(result.allocations) >= 2
    /\ \E i \in 1..Len(result.allocations) :
          LET a == result.allocations[i].v
          IN  /\ a.count >= 2
              /\ a.allocations[1].size # a.allocations[2].size
              /\ ~a.allocations[1].stackTrace.defined

\* C8: no method profile has more exclusive than inclusive samples
C8_ExclusiveWithinInclusive ==
    \A i \in 1..Len(result.methodProfiles) :
        result.methodProfiles[i].v.exclusiveCount <= result.methodProfiles[i].v.inclusiveCount

\* a stack that holds NS.Foo twice above an unresolved address, sampled twice
C8_Witness ==
    /\ pc = "done"
    /\ parser.stacks = StackTable(1, << <<4096, 4100, 12288>>, <<>> >>)
    /\ MapHas(parser.cpuSamples, 1) /\ MapGet(parser.cpuSamples, 1) = 2
    /\ \E i, j \in 1..Len(result.methodProfiles) :
          LET top  == result.methodProfiles[i].v
              base == result.methodProfiles[j].v
          IN  /\ top.exclusiveCount = 2 /\ top.inclusiveCount = 2
              /\ StartsWith(base.methodName, Str_unknown0x)
              /\ base.exclusiveCount = 0 /\ base.inclusiveCount = 2

\* every node of a tree with the names on the way to it
RECURSIVE TreeNodes(_, _)
TreeNodes(node, path) ==
    {[path |-> path, node |-> node]}
        \cup UNION {TreeNodes(node.children[i].v, Append(path, node.children[i].k)) :
                        i \in 1..Len(node.children)}

\* the names of a stack from its outermost frame to its top
NamePath(r, stackId) ==
    LET addrs == Reverse(MapGet(r.stacks, stackId).addresses)
    IN  [i \in 1..Len(addrs) |-> getMethodName(flameMethodAddresses(r.methods), addrs[i])]

\* the stacks a flame graph weighs: they have a sample and at least one frame
WeighedStacks(r, mode) ==
    {id \in MapKeySet(r.stacks) :
        /\ MapGet(r.stacks, id).addresses # <<>>
        /\ mode = "allocation" => MapHas(r.allocationSamples, id)}

Reaching(r, mode, path) ==
    {id \in WeighedStacks(r, mode) : StartsWith(NamePath(r, id), path)}

ChildrenWeight(node) ==
    SumSeq([i \in 1..Len(node.children) |-> node.children[i].v.samples])

TreeWeightsSound(r, mode, tree) ==
    tree.built =>
        \A pn \in TreeNodes(tree.root, <<>>) :
            /\ ChildrenWeight(pn.node) <= pn.node.samples
            /\ ChildrenWeight(pn.node) = pn.node.samples
                  <=> \A id \in Reaching(r, mode, pn.path) :
                          Len(NamePath(r, id)) > Len(pn.path)

\* C9: in the CPU and in the allocation tree the children of a node weigh at
\* most what the node weighs, and exactly as much when every stack that
\* reaches the node goes on below it
C9_ChildrenWithinParent ==
    pc = "rendered" => /\ TreeWeightsSound(result, "cpu", flame.cpu)
                       /\ TreeWeightsSound(result, "allocation", flame.allocation)

HasPartlyCoveredNode(tree) ==
    /\ tree.built
    /\ \E pn \in TreeNodes(tree.root, <<>>) :
          /\ ChildrenWeight(pn.node) > 0
          /\ ChildrenWeight(pn.node) < pn.node.samples

C9_Witness ==
    /\ pc = "rendered"
    /\ HasPartlyCoveredNode(flame.cpu)
    /\ HasPartlyCoveredNode(flame.allocation)

----------------------------------------------------------------------------
(* A StackBlock decoded on its own. lastOp is history: the entries the      *)
(* block was written from                                                   *)

MaxStackEntries == 2

\* an entry as its writer sees it: the addresses and the bytes after them
StackEntrySpec(pointerSize, addrs, rest) ==
    [size  |-> pointerSize * Len(addrs) + Len(rest),
     addrs |-> addrs,
     bytes |-> Concat([i \in 1..Len(addrs) |->
                          IF pointerSize = 8 THEN EncU64(addrs[i]) ELSE EncU32(addrs[i])])
                  \o rest]

\* whole addresses, a size that is no multiple of the pointer size, a size
\* below the pointer size
StackEntrySpecs(pointerSize) ==
    LET half == IF pointerSize = 8 THEN <<4, 0, 0, 0>> ELSE <<4, 0>>
    IN  {StackEntrySpec(pointerSize, <<4096>>, <<>>),
         StackEntrySpec(pointerSize, <<4096, 8192>>, <<>>),
         StackEntrySpec(pointerSize, <<4096>>, half),
         StackEntrySpec(pointerSize, <<4096>>, Zeros(Len(half))),
         StackEntrySpec(pointerSize, <<>>, half)}

StackBlockOf(firstId, entries) ==
    StackBlockContent(firstId, Len(entries),
                      [i \in 1..Len(entries) |-> StackEntry(entries[i].bytes)])

InitStack ==
    /\ pc = "stackblock"
    /\ \E pointerSize \in {4, 8}, firstId \in {1, 5} :
          \E n \in 0..MaxStackEntries :
              \E entries \in [1..n -> StackEntrySpecs(pointerSize)] :
                  /\ buffer = StackBlockOf(firstId, entries)
                  /\ parser = [NewParser EXCEPT !.pointerSize = pointerSize]
                  /\ lastOp = [firstId |-> firstId, entries |-> entries]
    /\ result = NewResult
    /\ objectCount = 0
    /\ iterStart = 0
    /\ failures = <<>>
    /\ decoded = <<>>
    /\ flame = <<>>

\* processBlock hands the block to parseStackBlock
ParseStackBlock ==
    /\ pc = "stackblock"
    /\ LET s == parseStackBlock(Cur, buffer)
       IN  /\ parser' = s.p
           /\ result' = s.r
           /\ failures' = s.f
           /\ decoded' = s.ev
    /\ pc' = "stacked"
    /\ UNCHANGED <<buffer, objectCount, iterStart, lastOp, flame>>

NextStack == ParseStackBlock

SpecStack == InitStack /\ [][NextStack]_vars

\* C10: each stored stack holds the addresses of the entry it was written
\* from, and their number times the pointer size is the entry's declared size
C10_AddressesFillDeclaredSize ==
    pc = "stacked" =>
        \A i \in 1..Len(parser.stacks) :
            /\ i <= Len(lastOp.entries)
            /\ parser.stacks[i].v.addresses = lastOp.entries[i].addrs
            /\ Len(parser.stacks[i].v.addresses) * parser.pointerSize
                  = lastOp.entries[i].size

----------------------------------------------------------------------------
(* Claims on the schema table                                              *)

\* the descriptors the MetadataBlock of the input files is written from:
\* <<metadata id of the payload, provider, event id>>; the pseudo-event header
\* of each carries the metadata id 0
WrittenSchemas ==
    {<<AllocSchemaId, DOTNET_RUNTIME_PROVIDER, GC_ALLOCATION_TICK_EVENT_ID>>,
     <<SampleSchemaId, SAMPLE_PROFILER_PROVIDER, 0>>,
     <<MethodSchemaId, DOTNET_RUNTIME_PROVIDER, METHOD_LOAD_VERBOSE_EVENT_ID>>}

KeyedByPayloadId(table) ==
    \A i \in 1..Len(table) :
        /\ table[i].k = table[i].v.metadataId
        /\ <<table[i].k, table[i].v.providerName, table[i].v.eventId>> \in WrittenSchemas

\* C11: every schema is stored under the metadata id read from its own
\* descriptor payload, which is also its metadataId field; the id of the
\* pseudo-event header (0 in these files) is never the key
C11_SchemaKeyIsPayloadId ==
    KeyedByPayloadId(parser.metadata) /\ KeyedByPayloadId(result.metadata)

C11_Witness ==
    /\ pc = "done"
    /\ MapKeySet(result.metadata) = {AllocSchemaId, SampleSchemaId, MethodSchemaId}
    /\ Len(decoded) > 0

----------------------------------------------------------------------------
(* An EventBlock decoded on its own, with compressed headers: two events,  *)
(* the second one with the flags of the input. The schemas are those of a  *)
(* MetadataBlock decoded before. lastOp is history: the fields the two     *)
(* events were written from                                                *)

\* flag bits of the first event: metadata id, thread id, stack id, payload size
AllCarriedFlags == 1 + 4 + 8 + 128

EventSpec(flags, metadataId, threadId, stackId, delta, payload) ==
    [flags |-> flags, metadataId |-> metadataId, threadId |-> threadId,
     stackId |-> stackId, delta |-> delta, payload |-> payload]

\* the bytes of an event; a payload whose size is carried over from the
\* previous event follows the header without a size field
EventSpecBytes(e) ==
    CompressedEvent(e.flags, e.metadataId, e.threadId, e.stackId, e.delta, e.payload)
        \o (IF Bit(e.flags, 128) THEN <<>> ELSE e.payload)

FirstEventSpecs ==
    {EventSpec(AllCarriedFlags, m, t, k, d, p) :
        m \in {AllocSchemaId, SampleSchemaId, UnknownSchemaId}, t \in {0, 3}, k \in {0, 1},
        d \in {0, 5}, p \in {<<1, 2>>, AllocationPayload(64, 128, 8, Str_T)}}

\* the second event repeats the payload length of the first
SecondEventSpecs(first) ==
    {EventSpec(f, MethodSchemaId, 2, 2, d, [i \in 1..Len(first.payload) |-> 0]) :
        f \in {0, 1, 8, 13}, d \in {0, 3}}

InitBlock ==
    /\ pc = "eventblock"
    /\ \E first \in FirstEventSpecs : \E second \in SecondEventSpecs(first) :
           /\ lastOp = [first |-> first, second |-> second]
           /\ buffer = EventBlockContent(TRUE, <<EventSpecBytes(first), EventSpecBytes(second)>>)
    /\ parser = parseMetadataBlock(St(NewParser, NewResult, <<>>, <<>>), AllSchemas).s.p
    /\ result = NewResult
    /\ objectCount = 0
    /\ iterStart = 0
    /\ failures = <<>>
    /\ decoded = <<>>
    /\ flame = <<>>

\* processBlock on the content of an EventBlock
DecodeEventBlock ==
    /\ pc = "eventblock"
    /\ Bind(processBlock(Cur, Str_EventBlock, buffer), LAMBDA s :
           /\ parser' = s.p
           /\ result' = s.r
           /\ failures' = s.f
           /\ decoded' = s.ev)
    /\ pc' = "decoded"
    /\ UNCHANGED <<buffer, objectCount, iterStart, lastOp, flame>>

NextBlock == DecodeEventBlock

SpecBlock == InitBlock /\ [][NextBlock]_vars

\* the fields processEvent is called with
DispatchedWith(ev, metadataId, threadId, stackId, payloadSize, timestamp) ==
    /\ ev.dispatched
    /\ ev.metadataId = metadataId
    /\ ev.threadId = threadId
    /\ ev.stackId = stackId
    /\ ev.payloadSize = payloadSize
    /\ ev.timestamp = timestamp

\* C12: in a compressed block, an event with flags = 0 that follows an event
\* whose flags set metadataId, threadId, stackId and payloadSize is dispatched
\* with the same four values; the first timestamp is the first delta, the
\* second one the sum of the two deltas
C12_HeaderFieldsCarryOver ==
    (pc = "decoded" /\ lastOp.second.flags = 0)
        => /\ Len(decoded) = 2
           /\ DispatchedWith(decoded[1], lastOp.first.metadataId, lastOp.first.threadId,
                             lastOp.first.stackId, Len(lastOp.first.payload),
                             lastOp.first.delta)
           /\ DispatchedWith(decoded[2], lastOp.first.metadataId, lastOp.first.threadId,
                             lastOp.first.stackId, Len(lastOp.first.payload),
                             lastOp.first.delta + lastOp.second.delta)
           /\ parser.debugInfo.totalEvents = 2

C12_Witness ==
    /\ pc = "decoded"
    /\ lastOp.second.flags = 0
    /\ lastOp.first.metadataId = AllocSchemaId
    /\ lastOp.first.threadId = 3
    /\ lastOp.first.stackId = 1
    /\ lastOp.first.delta = 5
    /\ lastOp.second.delta = 3
    /\ Len(decoded) = 2
    /\ decoded[2].timestamp = 8

----------------------------------------------------------------------------
(* Claims on the Trace object and the pointer size                         *)

\* C13: once a Trace object has been decoded, no later object of the stream
\* changes result.traceInfo or the pointer size of the parser
C13_TraceInfoWrittenOnce ==
    [][result.traceInfo # Null
          => /\ result'.traceInfo = result.traceInfo
             /\ parser'.pointerSize = parser.pointerSize]_vars

\* C18: while the pointer size declared by the Trace record is neither 4 nor
\* 8, no object of the stream adds a record to the stack table
C18_NoStackForOddPointerSize ==
    [][(result.traceInfo # Null /\ parser.pointerSize \notin {4, 8})
          => parser'.stacks = parser.stacks]_vars

----------------------------------------------------------------------------
(* Claims on the flame graph of one allocation                             *)

\* 'NS.Foo'
Str_NSFoo == Str_NS \o <<46>> \o Str_Foo

\* one stack [0x1000, 0x2000], the method NS.Foo at 0x1000 of size 0x100, one
\* GC-allocation event on the stack and no sample-profiler event
OneAllocationTrace ==
    /\ result.stacks = StackTable(1, << <<4096, 8192>> >>)
    /\ result.methods = MethodTable(<<Method(1, 4096, 256, Str_NS, Str_Foo)>>)
    /\ parser.cpuSamples = EmptyMap
    /\ Len(result.allocations) = 1
    /\ result.allocations[1].v.count = 1
    /\ MapKeySet(result.allocationSamples) = {1}

\* C14: for that trace the CPU flame graph has a root with exactly one child,
\* named "NS.Foo", and the other frame of the stack is the node "0x2000"
C14_CpuFlameOfOneAllocation ==
    (pc = "rendered" /\ OneAllocationTrace)
        => /\ flame.cpu.built
           /\ MapKeys(flame.cpu.root.children) = <<Str_NSFoo>>
           /\ \E i \in 1..Len(flame.cpu.nodes) : flame.cpu.nodes[i].name = hexAddr(8192)

----------------------------------------------------------------------------
(* BufferReader on its own: one cursor over one buffer, read after read     *)

MaxLen == 3

MaxCount == 2

RECURSIVE SeqsUpTo(_, _)
SeqsUpTo(S, n) ==
    IF n = 0 THEN {<<>>}
    ELSE LET shorter == SeqsUpTo(S, n - 1)
         IN  shorter \cup {Append(s, x) : s \in {t \in shorter : Len(t) = n - 1}, x \in S}

Rep(b, n) == [i \in 1..n |-> b]

\* every buffer of up to MaxLen bytes over a byte that ends a varint and a
\* string, a letter, and a byte with the continuation bit; and longer
\* buffers: runs of continuation bytes, a varint with all 32 bits set,
\* strings with and without their terminator
ReaderBuffers ==
    SeqsUpTo({0, 65, 128}, MaxLen)
        \cup {Rep(128, 11), Rep(255, 6), Rep(129, 4) \o <<15, 0>>,
              Rep(128, 9) \o <<1, 0>>,
              <<65, 0, 66, 0, 67>>, <<65, 0, 66, 0, 0, 0, 7>>,
              <<1, 2, 3, 4, 5, 0, 0, 0, 9>>}

InitReader ==
    /\ pc = "reader"
    /\ buffer \in ReaderBuffers
    /\ parser = NewParser
    /\ result = NewResult
    /\ objectCount = 0
    /\ iterStart = 0
    /\ failures = <<>>
    /\ decoded = <<>>
    /\ lastOp = <<>>
    /\ flame = <<>>

\* the call made, the offset before it, whether it returned or threw, and
\* the offset it left
Called(op, arg, r) ==
    /\ parser' = [parser EXCEPT !.offset = r.off]
    /\ lastOp' = [op |-> op, arg |-> arg, before |-> parser.offset,
                  ok |-> r.ok, val |-> r.val, off |-> r.off]
    /\ UNCHANGED <<pc, buffer, result, objectCount, iterStart, failures, decoded, flame>>

Width(op) ==
    CASE op \in {"readInt16LE", "readUInt16LE"} -> 2
      [] op \in {"readInt32LE", "readUInt32LE"} -> 4
      [] op \in {"readInt64LE", "readUInt64LE"} -> 8

\* the value read lies below 2^31, the integers of this model
FitsFixed(buf, off, width) ==
    \A i \in 4..width : byteAt(buf, off + i - 1) < (IF i = 4 THEN 128 ELSE 1)

\* the groups of a 64-bit varint from the fifth on are zero
FitsVar64(buf, off) ==
    \A i \in 4..9 : byteAt(buf, off + i) = Undefined \/ byteAt(buf, off + i) % 128 = 0

readFixed(op, buf, off) ==
    CASE op = "readInt16LE"  -> readInt16LE(buf, off)
      [] op = "readUInt16LE" -> readUInt16LE(buf, off)
      [] op = "readInt32LE"  -> readInt32LE(buf, off)
      [] op = "readUInt32LE" -> readUInt32LE(buf, off)
      [] op = "readInt64LE"  -> readInt64LE(buf, off)
      [] op = "readUInt64LE" -> readUInt64LE(buf, off)

ReadByte ==
    /\ pc = "reader"
    /\ Called("readByte", 1, readByte(buffer, parser.offset))

ReadFixed ==
    /\ pc = "reader"
    /\ \E op \in {"readInt16LE", "readUInt16LE", "readInt32LE", "readUInt32LE",
                  "readInt64LE", "readUInt64LE"} :
           /\ hasBytes(buffer, parser.offset, Width(op))
                  => FitsFixed(buffer, parser.offset, Width(op))
           /\ Called(op, Width(op), readFixed(op, buffer, parser.offset))

\* readBytes(count), and subReader(length), which is readBytes(length) and a
\* new cursor at 0 over the bytes returned
ReadBytes ==
    /\ pc = "reader"
    /\ \E count \in 0..MaxCount :
           Called("readBytes", count, readBytes(buffer, parser.offset, count))

ReadAsciiString ==
    /\ pc = "reader"
    /\ \E length \in 0..MaxCount :
           Called("readAsciiString", length, readAsciiString(buffer, parser.offset, length))

\* the value of readVarUInt is recorded as its halves <<bits 31..16, bits 15..0>>
ReadVarUInt ==
    /\ pc = "reader"
    /\ Bind(readVarUIntLimbs(buffer, parser.offset), LAMBDA r :
           Called("readVarUInt", 0,
                  [ok |-> r.ok, val |-> IF r.ok THEN <<r.hi, r.lo>> ELSE Undefined,
                   off |-> r.off]))

ReadVarInt64 ==
    /\ pc = "reader"
    /\ FitsVar64(buffer, parser.offset)
    /\ \E op \in {"readVarInt64", "readVarUInt64"} :
           Called(op, 0, IF op = "readVarInt64" THEN readVarInt64(buffer, parser.offset)
                         ELSE readVarUInt64(buffer, parser.offset))

ReadNullTerminatedUTF16 ==
    /\ pc = "reader"
    /\ Called("readNullTerminatedUTF16", 0, readNullTerminatedUTF16(buffer, parser.offset))

NextReader ==
    \/ ReadByte
    \/ ReadFixed
    \/ ReadBytes
    \/ ReadAsciiString
    \/ ReadVarUInt
    \/ ReadVarInt64
    \/ ReadNullTerminatedUTF16

SpecReader == InitReader /\ [][NextReader]_vars

----------------------------------------------------------------------------
(* Claims on the reads of the cursor                                        *)

\* the bytes between the cursor and the end of the buffer
Left(buf, off) == IF off >= Len(buf) THEN <<>> ELSE SubSeq(buf, off + 1, Len(buf))

AllContinue(bytes) == \A i \in 1..Len(bytes) : bytes[i] >= 128

\* no 16-bit unit of the bytes is zero
NoZeroUnit(bytes) ==
    \A u \in 1..(Len(bytes) \div 2) : bytes[2 * u - 1] # 0 \/ bytes[2 * u] # 0

\* the call of lastOp needs more bytes than were left: a width or a count
\* larger than what is left, a varint whose last byte is not in the buffer,
\* a string whose terminator is not in the buffer
Underflows ==
    LET left == Left(buffer, lastOp.before)
    IN  CASE lastOp.op = "readVarUInt" -> Len(left) < 5 /\ AllContinue(left)
          [] lastOp.op \in {"readVarInt64", "readVarUInt64"} ->
                 Len(left) < 10 /\ AllContinue(left)
          [] lastOp.op = "readNullTerminatedUTF16" -> NoZeroUnit(left)
          [] OTHER -> lastOp.arg > Len(left)

\* C15: a read that needs more bytes than are left fails, and leaves the
\* cursor where it was before the call
C15_UnderflowFailsInPlace ==
    (pc = "reader" /\ lastOp # <<>> /\ Underflows)
        => ~lastOp.ok /\ lastOp.off = lastOp.before

\* C16: readNullTerminatedUTF16 on a buffer that ends before a zero unit
\* consumes the complete units that are left and fails
C16_UnterminatedStringFails ==
    (pc = "reader" /\ lastOp # <<>> /\ lastOp.op = "readNullTerminatedUTF16"
        /\ NoZeroUnit(Left(buffer, lastOp.before)))
        => /\ ~lastOp.ok
           /\ lastOp.off = lastOp.before + 2 * (Len(Left(buffer, lastOp.before)) \div 2)

BitOf(n, k) == (n \div Pow2(k)) % 2

\* bit k of the sum of (byte_i & 0x7f) * 2^(7i) over the bytes consumed
VarBit(bytes, consumed, k) ==
    IF k \div 7 < consumed THEN BitOf(bytes[(k \div 7) + 1] % 128, k % 7) ELSE 0

\* bits base+15..base of that sum
VarHalf(bytes, consumed, base) ==
    SumSeq([j \in 1..16 |-> VarBit(bytes, consumed, base + j - 1) * Pow2(j - 1)])

\* C17: readVarUInt on a byte 0x00 returns 0 and consumes one byte; on five
\* continuation bytes it returns after exactly five bytes, and the 64-bit
\* reads on ten after exactly ten; the value of readVarUInt is the low 32 bits
\* of the sum of (byte_i & 0x7f) * 2^(7i), in [0, 2^32)
C17_VarintReads ==
    (pc = "reader" /\ lastOp # <<>>) =>
        LET left     == Left(buffer, lastOp.before)
            consumed == lastOp.off - lastOp.before
        IN  /\ (lastOp.op = "readVarUInt" /\ Len(left) >= 1 /\ left[1] = 0)
                   => lastOp.ok /\ lastOp.val = <<0, 0>> /\ consumed = 1
            /\ (lastOp.op = "readVarUInt" /\ Len(left) >= 5 /\ AllContinue(SubSeq(left, 1, 5)))
                   => lastOp.ok /\ consumed = 5
            /\ (lastOp.op \in {"readVarInt64", "readVarUInt64"}
                    /\ Len(left) >= 10 /\ AllContinue(SubSeq(left, 1, 10)))
                   => lastOp.ok /\ consumed = 10
            /\ (lastOp.op = "readVarUInt" /\ lastOp.ok)
                   => /\ lastOp.val[1] \in 0..65535
                      /\ lastOp.val[2] \in 0..65535
                      /\ lastOp.val = <<VarHalf(left, consumed, 16), VarHalf(left, consumed, 0)>>

\* a varint of five continuation bytes with all 32 bits set has been read,
\* and so has a 64-bit varint of ten continuation bytes
C17_Witness ==
    /\ pc = "reader"
    /\ lastOp # <<>>
    /\ lastOp.op = "readVarUInt"
    /\ lastOp.before = 1
    /\ buffer = Rep(255, 6)
    /\ lastOp.ok
    /\ lastOp.val = <<65535, 65535>>
    /\ lastOp.off = 6

----------------------------------------------------------------------------
(* Claims on the type registry                                              *)

\* where the definition of the object at off starts (its NullReference), if
\* the object opens with a definition, wrapped or of the older format
DefinitionStart(buf, off) ==
    IF byteAt(buf, off) # BeginPrivateObject THEN Undefined
    ELSE IF byteAt(buf, off + 1) = NullReference THEN off + 1
    ELSE IF byteAt(buf, off + 1) = BeginPrivateObject /\ byteAt(buf, off + 2) = NullReference
    THEN off + 2
    ELSE Undefined

\* the three int32 and the name of the definition at d lie within the buffer
DefinitionComplete(buf, d) ==
    /\ hasBytes(buf, d + 1, 12)
    /\ hasBytes(buf, d + 13, readInt32LE(buf, d + 9).val)

DefinedName(buf, d) == sliceBytes(buf, d + 13, d + 13 + readInt32LE(buf, d + 9).val)

Dense(registry, n) ==
    /\ MapKeys(registry) = [i \in 1..n |-> i - 1]
    /\ \A i \in 1..n : registry[i].v.typeIndex = i - 1

\* the object at the cursor opens with a back-reference to index k
BackReferenceAt(k) == StartsWith(Left(buffer, parser.offset), TypeReferenceBytes(k))

\* the type the reference of the object at the cursor resolves to
ResolvedType ==
    readTypeReference(St([parser EXCEPT !.offset = @ + 1], result, failures, decoded),
                      buffer).typeInfo

\* C19: over every object of the walk the keys of the type registry are
\* 0..n-1; an object that opens with a complete definition appends it under
\* the next index with the name of the file, any other object leaves the
\* registry as it is; a back-reference k < n resolves to entry k
C19_TypeRegistry ==
    [][(pc = "walk" /\ objectCount' = objectCount + 1) =>
          LET n == parser.nextTypeIndex
              d == DefinitionStart(buffer, parser.offset)
          IN  /\ Dense(parser'.typeRegistry, parser'.nextTypeIndex)
              /\ IF d # Undefined /\ DefinitionComplete(buffer, d)
                 THEN /\ parser'.nextTypeIndex = n + 1
                      /\ SubSeq(parser'.typeRegistry, 1, n) = parser.typeRegistry
                      /\ MapGet(parser'.typeRegistry, n).typeName = DefinedName(buffer, d)
                 ELSE /\ parser'.nextTypeIndex = n
                      /\ parser'.typeRegistry = parser.typeRegistry
              /\ \A k \in 0..(n - 1) :
                     BackReferenceAt(k) => ResolvedType = MapGet(parser.typeRegistry, k)]_vars

----------------------------------------------------------------------------
(* Claims on the names of unresolved addresses                              *)

\* buildTypeStackDistribution: stack.addresses.map(addr => getMethodName(addr)),
\* its getMethodName and its interval list being those of the flame graph
frames(r, stackId) ==
    Bind(flameMethodAddresses(r.methods), LAMBDA ma :
        Bind(MapGet(r.stacks, stackId).addresses, LAMBDA addresses :
            [i \in 1..Len(addresses) |-> getMethodName(ma, addresses[i])]))

\* no method with a start address holds addr in [start, start + size)
InNoInterval(methods, addr) ==
    \A i \in 1..Len(methods) :
        LET method == methods[i].v
        IN  ~(/\ method.methodStartAddress > 0
              /\ addr >= method.methodStartAddress
              /\ addr < method.methodStartAddress + method.methodSize)

\* <<stackId, position>> of the addresses of the stack table in no interval
UnresolvedFrames(r) ==
    {f \in UNION {{<<r.stacks[n].k, i>> : i \in 1..Len(r.stacks[n].v.addresses)} :
                      n \in 1..Len(r.stacks)} :
        InNoInterval(r.methods, MapGet(r.stacks, f[1]).addresses[f[2]])}

\* C20: an address in no method interval is named "0x" and its lowercase
\* hexadecimal digits in the method profiles of the sampled stacks, in the
\* CPU flame graph and in the frames of the type drill-down
C20_UnresolvedAddressIsHex ==
    pc \in {"done", "rendered"} =>
        \A f \in UnresolvedFrames(result) :
            LET name == hexAddr(MapGet(result.stacks, f[1]).addresses[f[2]])
            IN  /\ MapHas(parser.cpuSamples, f[1]) => MapHas(result.methodProfiles, name)
                /\ (pc = "rendered" /\ flame.cpu.built)
                       => \E i \in 1..Len(flame.cpu.nodes) : flame.cpu.nodes[i].name = name
                /\ frames(result, f[1])[f[2]] = name

----------------------------------------------------------------------------
(* The address lookups on their own: a method table, then queries           *)

MaxMethods == 3

MaxAddress == 19

LookupStarts == {0, 4, 8}

LookupSizes == {0, 2, 10}

\* the method records of a table: ids 1..n in insertion order, named A, B, ..
LookupMethods(spans) ==
    [i \in 1..Len(spans) |-> Method(i, spans[i][1], spans[i][2], <<>>, <<64 + i>>)]

LookupTables ==
    {MethodTable(LookupMethods(spans)) :
        spans \in UNION {[1..n -> LookupStarts \X LookupSizes] : n \in 0..MaxMethods}}

InitLookup ==
    /\ pc = "lookup"
    /\ buffer = <<>>
    /\ parser = NewParser
    /\ \E methods \in LookupTables : result = [NewResult EXCEPT !.methods = methods]
    /\ objectCount = 0
    /\ iterStart = 0
    /\ failures = <<>>
    /\ decoded = <<>>
    /\ lastOp = <<>>
    /\ flame = <<>>

\* findMethodByAddress(addr) of computeMethodProfiles; lastOp is what it returned
FindMethodByAddress ==
    /\ pc = "lookup"
    /\ \E addr \in 0..MaxAddress :
           Bind(methodAddresses(result.methods), LAMBDA ma :
               Bind(findMethodByAddress(ma, addr), LAMBDA f :
                   lastOp' = [op |-> "findMethodByAddress", addr |-> addr,
                              found |-> f.found,
                              method |-> IF f.found THEN ma[f.index].method ELSE Null]))
    /\ UNCHANGED <<pc, buffer, parser, result, objectCount, iterStart, failures, decoded, flame>>

\* getMethodName(addr) of buildFlameGraphData; lastOp is the name it returned
GetMethodName ==
    /\ pc = "lookup"
    /\ \E addr \in 0..MaxAddress :
           lastOp' = [op |-> "getMethodName", addr |-> addr,
                      name |-> getMethodName(flameMethodAddresses(result.methods), addr)]
    /\ UNCHANGED <<pc, buffer, parser, result, objectCount, iterStart, failures, decoded, flame>>

NextLookup == FindMethodByAddress \/ GetMethodName

SpecLookup == InitLookup /\ [][NextLookup]_vars

----------------------------------------------------------------------------
(* Claims on the address lookups                                            *)

\* the records with a start address, by ascending start address
StartSorted(methods) == methodAddresses(methods)

Holds(entry, q) == entry.address <= q /\ q < entry.endAddress

\* positions of the sorted list whose interval contains q
Matches(methods, q) ==
    {i \in 1..Len(StartSorted(methods)) : Holds(StartSorted(methods)[i], q)}

Earliest(S) == CHOOSE i \in S : \A j \in S : i <= j

\* C21: when an interval contains q the lookup returns the match that comes
\* first in the list sorted by start address, never 'not found'
C21_EarliestMatchReturned ==
    (pc = "lookup" /\ lastOp # <<>> /\ Matches(result.methods, lastOp.addr) # {}) =>
        LET first == StartSorted(result.methods)[Earliest(Matches(result.methods, lastOp.addr))]
        IN  IF lastOp.op = "findMethodByAddress"
            THEN lastOp.found /\ lastOp.method = first.method
            ELSE lastOp.name = getMethodFullName(first.method)

\* two intervals overlap: each starts before the other ends
Overlap(a, b) == a.address < b.endAddress /\ b.address < a.endAddress

NonOverlapping(methods) ==
    \A i, j \in 1..Len(StartSorted(methods)) :
        i # j => ~Overlap(StartSorted(methods)[i], StartSorted(methods)[j])

\* the records a scan of the whole table finds to contain q
Scan(methods, q) ==
    {methods[i].v : i \in {n \in 1..Len(methods) :
        /\ methods[n].v.methodStartAddress > 0
        /\ methods[n].v.methodStartAddress <= q
        /\ q < methods[n].v.methodStartAddress + methods[n].v.methodSize}}

\* C22: over non-overlapping intervals findMethodByAddress returns the method
\* a linear scan finds to contain q, and 'not found' when the scan finds none
C22_BinarySearchIsLinearScan ==
    (pc = "lookup" /\ lastOp # <<>> /\ lastOp.op = "findMethodByAddress"
        /\ NonOverlapping(result.methods)) =>
        IF Scan(result.methods, lastOp.addr) = {} THEN ~lastOp.found
        ELSE lastOp.found /\ Scan(result.methods, lastOp.addr) = {lastOp.method}

----------------------------------------------------------------------------
(* Method events on their own: load-verbose, DCEnd-verbose and jit-start    *)
(* events reach processEvent in any order. lastOp is the event dispatched   *)

MaxMethodEvents == 3

LoadSchemaId == SchemaIds[1]
DCEndSchemaId == SchemaIds[2]
JitSchemaId == SchemaIds[3]

MethodSchemas ==
    MetadataBlockContent(TRUE,
        <<SchemaEvent(LoadSchemaId, DOTNET_RUNTIME_PROVIDER, METHOD_LOAD_VERBOSE_EVENT_ID),
          SchemaEvent(DCEndSchemaId, DOTNET_RUNTIME_RUNDOWN_PROVIDER,
                      METHOD_DC_END_VERBOSE_EVENT_ID),
          SchemaEvent(JitSchemaId, DOTNET_RUNTIME_PROVIDER, METHOD_JITTING_STARTED_EVENT_ID)>>)

\* MethodJittingStarted payload: id, module, token, IL size, three strings
MethodJitPayload(methodId, ns, name) ==
    EncU64(methodId) \o EncU64(1) \o EncU32(0) \o EncU32(12)
        \o EncUTF16(ns) \o EncUTF16(name) \o EncUTF16(<<>>)

\* the events drawn: what their writer put in them, and their payload; the
\* last two stop inside their fixed-width fields
MethodEvents ==
    {[kind |-> "load", schema |-> sid, methodId |-> id, start |-> start, size |-> 16,
      name |-> name, whole |-> TRUE,
      payload |-> MethodLoadPayload(id, start, 16, Str_NS, name)] :
        sid \in {LoadSchemaId, DCEndSchemaId}, id \in {1, 2}, start \in {4096, 8192},
        name \in {Str_Foo}}
    \cup {[kind |-> "jit", schema |-> JitSchemaId, methodId |-> id, start |-> 0, size |-> 0,
           name |-> name, whole |-> TRUE,
           payload |-> MethodJitPayload(id, Str_NS, name)] :
             id \in {1, 2}, name \in {Str_Foo, Str_T}}
    \cup {[kind |-> "load", schema |-> LoadSchemaId, methodId |-> 1, start |-> 0, size |-> 0,
           name |-> <<>>, whole |-> FALSE, payload |-> EncU64(1) \o EncU64(1)],
          [kind |-> "jit", schema |-> JitSchemaId, methodId |-> 1, start |-> 0, size |-> 0,
           name |-> <<>>, whole |-> FALSE, payload |-> EncU64(1) \o EncU64(1)]}

InitMethods ==
    /\ pc = "methods"
    /\ buffer = <<>>
    /\ parser = parseMetadataBlock(St(NewParser, NewResult, <<>>, <<>>), MethodSchemas).s.p
    /\ result = NewResult
    /\ objectCount = 0
    /\ iterStart = 0
    /\ failures = <<>>
    /\ decoded = <<>>
    /\ lastOp = <<>>
    /\ flame = <<>>

\* processEvent on one method event
MethodEvent ==
    /\ pc = "methods"
    /\ objectCount < MaxMethodEvents
    /\ \E e \in MethodEvents :
           /\ Bind(processEvent(Cur, e.schema, 0, 0, 0, e.payload), LAMBDA s :
                  /\ parser' = s.p
                  /\ result' = s.r
                  /\ failures' = s.f
                  /\ decoded' = s.ev)
           /\ lastOp' = e
    /\ objectCount' = objectCount + 1
    /\ UNCHANGED <<pc, buffer, iterStart, flame>>

NextMethods == MethodEvent

SpecMethods == InitMethods /\ [][NextMethods]_vars

\* C23: a jit-start event for a method id that has a record leaves the method
\* table as it is; a load-verbose or DCEnd-verbose event whose fixed-width
\* fields are all in its payload makes the record of its id the one it
\* carries; so a start address and a size once stored are never reset to 0
\* by a jit-start
C23_JitStartNeverReplaces ==
    [][(pc = "methods" /\ objectCount' = objectCount + 1) =>
          /\ (lastOp'.kind = "jit" /\ MapHas(result.methods, lastOp'.methodId))
                 => result'.methods = result.methods
          /\ (lastOp'.kind = "load" /\ lastOp'.whole)
                 => /\ MapHas(result'.methods, lastOp'.methodId)
                    /\ MapGet(result'.methods, lastOp'.methodId) =
                           Method(lastOp'.methodId, lastOp'.start, lastOp'.size,
                                  Str_NS, lastOp'.name)
          /\ lastOp'.kind = "jit"
                 => \A i \in 1..Len(result.methods) :
                        result.methods[i].v.methodStartAddress > 0
                            => /\ result'.methods[i].v.methodStartAddress
                                      = result.methods[i].v.methodStartAddress
                               /\ result'.methods[i].v.methodSize
                                      = result.methods[i].v.methodSize]_vars

\* a jit-start event has been dispatched for a method whose load-verbose
\* record, first stored and then replaced by a second load, is still there
C23_Witness ==
    /\ pc = "methods"
    /\ objectCount = 3
    /\ lastOp.kind = "jit" /\ lastOp.whole /\ lastOp.methodId = 1
    /\ MapHas(result.methods, 1)
    /\ MapGet(result.methods, 1).methodStartAddress = 8192
    /\ MapGet(result.methods, 1).methodSize = 16
    /\ MapHas(result.methodsByAddress, 4096)

----------------------------------------------------------------------------
(* Claims on the per-stack and per-type allocation maps                     *)

\* count and size of a stack's record are the sums over its types
StackTotalsMatch(samples) ==
    \A i \in 1..Len(samples) :
        LET types == samples[i].v.types
        IN  /\ samples[i].v.count = SumSeq([j \in 1..Len(types) |-> types[j].v.count])
            /\ samples[i].v.size = SumSeq([j \in 1..Len(types) |-> types[j].v.size])

\* typeStackDistribution[t][s] exists iff allocationSamples[s].types[t]
\* exists, and the two are equal
Mirrored(samples, dist) ==
    /\ \A i \in 1..Len(samples) : \A j \in 1..Len(samples[i].v.types) :
           LET s == samples[i].k
               t == samples[i].v.types[j].k
           IN  /\ MapHas(dist, t)
               /\ MapHas(MapGet(dist, t), s)
               /\ MapGet(MapGet(dist, t), s) = samples[i].v.types[j].v
    /\ \A i \in 1..Len(dist) : \A j \in 1..Len(dist[i].v) :
           LET t == dist[i].k
               s == dist[i].v[j].k
           IN  /\ MapHas(samples, s)
               /\ MapHas(MapGet(samples, s).types, t)

\* C24: an allocation with stack id 0 changes neither allocationSamples nor
\* typeStackDistribution; after every allocation each stack's count and size
\* are the sums over its types, and the two maps mirror each other
C24_StackAndTypeMapsAgree ==
    [][(pc = "events" /\ objectCount' = objectCount + 1 /\ lastOp'[1] = "addAllocation") =>
          /\ lastOp'[4] = 0
                 => /\ result'.allocationSamples = result.allocationSamples
                    /\ result'.typeStackDistribution = result.typeStackDistribution
          /\ StackTotalsMatch(result'.allocationSamples)
          /\ Mirrored(result'.allocationSamples, result'.typeStackDistribution)]_vars

\* two stacks and two types tracked, one stack with two types of different
\* sizes, and the last allocation made with stack id 0
C24_Witness ==
    /\ pc = "events"
    /\ lastOp # <<>> /\ lastOp[1] = "addAllocation" /\ lastOp[4] = 0
    /\ Len(result.allocationSamples) = 1
    /\ Len(result.allocationSamples[1].v.types) = 2
    /\ result.allocationSamples[1].v.count = 2
    /\ result.allocationSamples[1].v.size = 32
    /\ Len(result.typeStackDistribution) = 2

----------------------------------------------------------------------------
(* Claims on the boundaries of a block                                      *)

\* the first multiple of 4 at or after off
NextMultipleOf4(off) == ((off + 3) \div 4) * 4

\* the type reference of the object at the cursor, read from the byte after
\* its BeginPrivateObject tag
OpeningType ==
    readTypeReference(St([parser EXCEPT !.offset = @ + 1], result, failures, decoded), buffer)

\* the object at the cursor is a block whose size field, at sizeOff, holds a
\* size in range that fits in the buffer after the padding
FittingBlockAt(t, sizeOff) ==
    /\ byteAt(buffer, parser.offset) = BeginPrivateObject
    /\ ~t.threw
    /\ t.typeInfo # Null
    /\ IsBlockType(t.typeInfo.typeName)
    /\ sizeOff = t.s.p.offset
    /\ hasBytes(buffer, sizeOff, 4)
    /\ readInt32LE(buffer, sizeOff).val \in 1..MaxBlockSize
    /\ NextMultipleOf4(sizeOff + 4) + readInt32LE(buffer, sizeOff).val <= Len(buffer)

\* C25: the content of such a block is decoded from the blockSize bytes at
\* the first multiple of 4 after its size field, and whether or not the
\* decoding fails the walk resumes at the first tag at or after the end of
\* those bytes
C25_BlockBoundaries ==
    [][(pc = "walk" /\ objectCount' = objectCount + 1) =>
          Bind(OpeningType, LAMBDA t :
              \A sizeOff \in 0..Len(buffer) :
                  FittingBlockAt(t, sizeOff) =>
                      Bind(NextMultipleOf4(sizeOff + 4), LAMBDA start :
                      Bind(start + readInt32LE(buffer, sizeOff).val, LAMBDA end :
                      Bind(processBlock(t.s, t.typeInfo.typeName,
                                        SubSeq(buffer, start + 1, end)), LAMBDA s :
                          /\ parser'.offset = skipToNextObject(buffer, end)
                          /\ parser'.offset >= end
                          /\ parser' = [s.p EXCEPT !.offset = parser'.offset]
                          /\ result' = s.r))))]_vars

\* a MetadataBlock of two bytes whose size field ends at 65 and whose content
\* starts at 68 has failed to decode, and the walk stands just after the
\* EndObject that follows its last byte
C25_Witness ==
    /\ pc = "walk"
    /\ objectCount = 1
    /\ iterStart = 32
    /\ readInt32LE(buffer, 61).val = 2
    /\ parser.debugInfo.metadataBlocks = 1
    /\ Len(parser.errors) = 1
    /\ parser.offset = 68 + 2 + 1

----------------------------------------------------------------------------
(* Claims on the weight of the flame-graph root                             *)

\* C27: the root of the allocation flame graph weighs the sum of the counts
\* of allocationSamples over all its stack ids, with or without a record in
\* the stack table; the root of the CPU flame graph weighs the number of
\* stacks
C27_RootWeighsAllInputs ==
    pc = "rendered" =>
        /\ flame.allocation.built =>
               flame.allocation.root.samples =
                   SumSeq([i \in 1..Len(result.allocationSamples) |->
                              result.allocationSamples[i].v.count])
        /\ flame.cpu.built => flame.cpu.root.samples = Len(result.stacks)

----------------------------------------------------------------------------
(* The flame graphs of a finished parse: every stack of the table has been  *)
(* the stack of lastOp[id] allocations, and the first one of a CPU sample   *)

MaxWeight == 5

\* top of stack first; no address belongs to a method
FlameStackTables ==
    {StackTable(1, << <<4096>>, <<8192>>, <<12288>>, <<16384>>, <<20480>> >>),
     StackTable(1, << <<8192, 4096>>, <<12288, 4096>>, <<16384, 4096>>, <<20480>> >>)}

\* the stack ids of the events, those of one stack after those of another
RECURSIVE eventStackIds(_, _)
eventStackIds(weights, done) ==
    IF Len(done.ids) = SumSeq(weights) THEN done.ids
    ELSE IF done.left = 0
         THEN eventStackIds(weights, [ids |-> done.ids, stack |-> done.stack + 1,
                                      left |-> weights[done.stack + 1]])
         ELSE eventStackIds(weights, [ids |-> Append(done.ids, done.stack),
                                      stack |-> done.stack, left |-> done.left - 1])

RECURSIVE dispatchAllocations(_, _, _)
dispatchAllocations(s, ids, n) ==
    IF n > Len(ids) THEN s
    ELSE dispatchAllocations(addAllocation(s, Str_T, 8, n, ids[n]), ids, n + 1)

InitFlame ==
    /\ pc = "done"
    /\ buffer = <<>>
    /\ \E stacks \in FlameStackTables :
          \E weights \in [1..Len(stacks) -> 1..MaxWeight] :
              /\ lastOp = weights
              /\ Bind(finishParse(processCpuSample(
                          dispatchAllocations(St([NewParser EXCEPT !.stacks = stacks],
                                                 NewResult, <<>>, <<>>),
                                              eventStackIds(weights,
                                                            [ids |-> <<>>, stack |-> 1,
                                                             left |-> weights[1]]),
                                              1),
                          1)),
                      LAMBDA s : parser = s.p /\ result = s.r)
    /\ objectCount = 0
    /\ iterStart = 0
    /\ failures = <<>>
    /\ decoded = <<>>
    /\ flame = <<>>

NextFlame == RenderFlameGraphs

SpecFlame == InitFlame /\ [][NextFlame]_vars

----------------------------------------------------------------------------
(* Claims on the layout of the flame graph                                  *)

\* x + width of a node, exactly
RightEdge(node) == exactSum(node.x, node.width, [digits |-> <<>>, carry |-> 0])

\* nodes[j] is the parent of nodes[i]: the last node before it one level up
IsParent(nodes, j, i) ==
    /\ j < i
    /\ nodes[j].depth = nodes[i].depth - 1
    /\ \A k \in (j + 1)..(i - 1) : nodes[k].depth >= nodes[i].depth

\* nodes[i] and nodes[j] are children of one node, nodes[i] the earlier
Siblings(nodes, i, j) ==
    /\ i < j
    /\ nodes[i].depth = nodes[j].depth
    /\ \A k \in (i + 1)..(j - 1) : nodes[k].depth >= nodes[i].depth

WithinUnit(tree) ==
    \A i \in 1..Len(tree.nodes) :
        /\ NumberLeq(NumberZero, tree.nodes[i].x)
        /\ NumberLeq(RightEdge(tree.nodes[i]), NumberOne)

WithinParent(tree) ==
    \A i, j \in 1..Len(tree.nodes) :
        IsParent(tree.nodes, j, i) =>
            /\ NumberLeq(tree.nodes[j].x, tree.nodes[i].x)
            /\ NumberLeq(RightEdge(tree.nodes[i]), RightEdge(tree.nodes[j]))

SiblingsInOrder(tree) ==
    \A i, j \in 1..Len(tree.nodes) :
        Siblings(tree.nodes, i, j) =>
            /\ NumberLeq(RightEdge(tree.nodes[i]), tree.nodes[j].x)
            /\ tree.nodes[i].samples >= tree.nodes[j].samples

WidthIsShare(tree) ==
    \A i \in 1..Len(tree.nodes) :
        tree.nodes[i].width = numberDivide(tree.nodes[i].samples, tree.root.samples)

LaidOut(tree) ==
    tree.built => /\ WithinUnit(tree)
                  /\ WithinParent(tree)
                  /\ SiblingsInOrder(tree)
                  /\ WidthIsShare(tree)

\* C26: every flattened node lies in [0, 1] and inside its parent's interval,
\* siblings are pairwise disjoint, laid out left to right in non-increasing
\* weight, and the width of a node is its weight over the root's weight
C26_NodesLaidOutInUnitInterval ==
    pc = "rendered" => LaidOut(flame.cpu) /\ LaidOut(flame.allocation)

----------------------------------------------------------------------------
(* Events and metadata blocks in any order: an event can reach processEvent *)
(* before the block that defines its schema. lastOp is the step taken       *)

MaxDispatch == 3

\* <<metadata id, payload>>: the payload is the one of the id's event; the
\* id without a schema comes with two of them
DispatchInputs ==
    {<<AllocSchemaId, AllocationPayload(64, 128, 8, Str_T)>>,
     <<SampleSchemaId, <<0, 0, 0, 0>>>>,
     <<MethodSchemaId, MethodLoadPayload(1, 4096, 256, Str_NS, Str_Foo)>>,
     <<UnknownSchemaId, AllocationPayload(64, 128, 8, Str_T)>>,
     <<UnknownSchemaId, <<0, 0, 0, 0>>>>}

\* metadata blocks that define one more schema, under the id they define
LateBlocks ==
    {[id |-> AllocSchemaId, content |-> AllSchemas],
     [id |-> UnknownSchemaId,
      content |-> MetadataBlockContent(TRUE,
          <<SchemaEvent(UnknownSchemaId, DOTNET_RUNTIME_PROVIDER,
                        GC_ALLOCATION_TICK_EVENT_ID)>>)],
     [id |-> UnknownSchemaId,
      content |-> MetadataBlockContent(TRUE,
          <<SchemaEvent(UnknownSchemaId, DOTNET_RUNTIME_PROVIDER,
                        METHOD_LOAD_VERBOSE_EVENT_ID)>>)],
     [id |-> UnknownSchemaId,
      content |-> MetadataBlockContent(TRUE,
          <<SchemaEvent(UnknownSchemaId, SAMPLE_PROFILER_PROVIDER, 0)>>)]}

InitDispatch ==
    /\ pc = "dispatch"
    /\ buffer = <<>>
    /\ parser = [NewParser EXCEPT !.stacks = StackTable(1, << <<4096, 8192>> >>)]
    /\ result = NewResult
    /\ objectCount = 0
    /\ iterStart = 0
    /\ failures = <<>>
    /\ decoded = <<>>
    /\ lastOp = <<>>
    /\ flame = <<>>

\* processEvent on one event
DispatchOne ==
    /\ pc = "dispatch"
    /\ objectCount < MaxDispatch
    /\ \E in \in DispatchInputs, stackId \in {0, 1} :
           /\ Bind(processEvent(Cur, in[1], 0, objectCount, stackId, in[2]),
                   LAMBDA s : /\ parser' = s.p
                              /\ result' = s.r
                              /\ failures' = s.f
                              /\ decoded' = s.ev)
           /\ lastOp' = [op |-> "processEvent", metadataId |-> in[1],
                         stackId |-> stackId]
    /\ objectCount' = objectCount + 1
    /\ UNCHANGED <<pc, buffer, iterStart, flame>>

\* parseMetadataBlock on a block that comes after events
LateMetadataBlock ==
    /\ pc = "dispatch"
    /\ \E b \in LateBlocks :
           /\ ~MapHas(parser.metadata, b.id)
           /\ Bind(parseMetadataBlock(Cur, b.content).s,
                   LAMBDA s : /\ parser' = s.p
                              /\ result' = s.r
                              /\ failures' = s.f
                              /\ decoded' = s.ev)
           /\ lastOp' = [op |-> "parseMetadataBlock", metadataId |-> b.id, stackId |-> 0]
    /\ UNCHANGED <<pc, buffer, objectCount, iterStart, flame>>

NextDispatch == DispatchOne \/ LateMetadataBlock

SpecDispatch == InitDispatch /\ [][NextDispatch]_vars

\* the allocation table, the per-stack samples, the reverse index, the method
\* tables and the CPU sample counts
AggregateTables(p, r) ==
    <<r.allocations, r.allocationSamples, r.typeStackDistribution, r.methods,
      r.methodsByAddress, p.cpuSamples>>

\* C28: an event whose metadata id has no schema when it is dispatched
\* changes the total-event counter and the counter of its id and nothing
\* else, and a metadata block that defines the schema later changes none of
\* the allocation table, the per-stack samples, the reverse index, the method
\* tables and the CPU sample counts
C28_UnknownIdOnlyCounted ==
    [][/\ (objectCount' = objectCount + 1
            /\ ~MapHas(parser.metadata, lastOp'.metadataId))
           => /\ result' = result
              /\ [parser' EXCEPT
                     !.debugInfo.totalEvents = parser.debugInfo.totalEvents,
                     !.debugInfo.eventCountsByMetadataId =
                         parser.debugInfo.eventCountsByMetadataId] = parser
              /\ parser'.debugInfo.totalEvents = parser.debugInfo.totalEvents + 1
              /\ MapGet(parser'.debugInfo.eventCountsByMetadataId, lastOp'.metadataId)
                     = (IF MapHas(parser.debugInfo.eventCountsByMetadataId,
                                  lastOp'.metadataId)
                        THEN MapGet(parser.debugInfo.eventCountsByMetadataId,
                                    lastOp'.metadataId)
                        ELSE 0) + 1
       /\ objectCount' = objectCount
           => AggregateTables(parser', result') = AggregateTables(parser, result)]_vars

\* two allocation events of an id without a schema were dispatched on stack
\* 1 while another schema was known, then a block defined the schema of the
\* id, and the tables are still empty
C28_Witness ==
    /\ pc = "dispatch"
    /\ lastOp # <<>> /\ lastOp.op = "parseMetadataBlock"
    /\ MapHas(parser.metadata, UnknownSchemaId)
    /\ MapHas(parser.metadata, AllocSchemaId)
    /\ MapGet(parser.metadata, UnknownSchemaId).eventId = GC_ALLOCATION_TICK_EVENT_ID
    /\ parser.debugInfo.totalEvents = 2
    /\ MapHas(parser.debugInfo.eventCountsByMetadataId, UnknownSchemaId)
    /\ MapGet(parser.debugInfo.eventCountsByMetadataId, UnknownSchemaId) = 2
    /\ AggregateTables(parser, result) = AggregateTables(NewParser, NewResult)

----------------------------------------------------------------------------
(* parse() called twice on one NetTraceParser: the instance fields are what *)
(* the first call left, the result object and the locals are new. lastOp    *)
(* is history: the result the first call returned                           *)

\* the second call of parse() begins
ParseAgain ==
    /\ pc = "done"
    /\ lastOp = <<>>
    /\ lastOp' = [first |-> result]
    /\ result' = NewResult
    /\ pc' = "start"
    /\ objectCount' = 0
    /\ iterStart' = 0
    /\ failures' = <<>>
    /\ decoded' = <<>>
    /\ UNCHANGED <<buffer, parser, flame>>

NextReparse == ParseBegin \/ WalkStep \/ ParseEnd \/ ParseAgain

SpecReparse == InitParse /\ [][NextReparse]_vars

\* C29: the second call of parse() on an instance returns a result equal to
\* the one the first call returned
C29_SecondParseEqualsFirst ==
    (pc = "done" /\ lastOp # <<>>) => result = lastOp.first

----------------------------------------------------------------------------
(* The custom editor: a document opened and shown, 'refresh' messages, and  *)
(* the loads they start. buffer is the file on disk, result the document's  *)
(* _parseResult, flame the html of the webview, objectCount the number of   *)
(* 'refresh' messages received and parser the loads they started, in the    *)
(* order of the messages. lastOp is history: the result the document was    *)
(* opened with                                                              *)

MaxRefresh == 2

\* parseObjectStream as one call
RECURSIVE parseObjectStream(_, _, _)
parseObjectStream(s, buf, count) ==
    IF ~walkContinues(buf, s.p.offset, count) THEN s
    ELSE Bind(walkObject(s, buf), LAMBDA w :
             IF breaksWalk(buf, w) THEN w.s
             ELSE parseObjectStream(w.s, buf, count + 1))

\* new NetTraceFullParser(buffer).parse()
parse(buf) ==
    Bind(validateHeader(buf), LAMBDA v :
        IF v.ok
        THEN finishParse(parseObjectStream(
                 St([NewParser EXCEPT !.offset = v.off], NewResult, <<>>, <<>>), buf, 0)).r
        ELSE [NewResult EXCEPT !.errors = Append(@, v.error)])

\* what the page shows of a parse result
getHtmlForWebview(r) ==
    [totalEvents |-> r.debugInfo.totalEvents,
     providers   |-> r.debugInfo.providers,
     eventCounts |-> r.debugInfo.eventCounts,
     stackCount  |-> Len(r.stacks),
     methodCount |-> Len(r.methods),
     allocations |-> [i \in 1..Len(r.allocations) |->
                         [typeName  |-> r.allocations[i].v.typeName,
                          count     |-> r.allocations[i].v.count,
                          totalSize |-> r.allocations[i].v.totalSize]],
     cpu         |-> buildFlameGraphData(r, "cpu").nodes,
     allocation  |-> buildFlameGraphData(r, "allocation").nodes]

\* the file as it is written and rewritten while the editor is open
DiskFiles ==
    {BuildFile(ValidHeader, <<>>, items) :
        items \in {<<>>,
                   <<Item("block", Str_EventBlock, MixedEvents, 0)>>,
                   <<Item("block", Str_MetadataBlock, AllSchemas, 0),
                     Item("block", Str_EventBlock, MixedEvents, 0)>>}}

\* openCustomDocument awaits the first load, resolveCustomEditor shows it
InitEditor ==
    /\ pc = "editor"
    /\ buffer \in DiskFiles
    /\ result = parse(buffer)
    /\ flame = getHtmlForWebview(result)
    /\ parser = <<>>
    /\ objectCount = 0
    /\ iterStart = 0
    /\ failures = <<>>
    /\ decoded = <<>>
    /\ lastOp = [opened |-> result]

\* another process rewrites the file
FileRewritten ==
    /\ pc = "editor"
    /\ buffer' \in DiskFiles \ {buffer}
    /\ UNCHANGED <<pc, parser, result, objectCount, iterStart, failures, decoded, lastOp, flame>>

\* case 'refresh': document.load() is called and reaches its await
Refresh ==
    /\ pc = "editor"
    /\ objectCount < MaxRefresh
    /\ parser' = Append(parser, [state |-> "reading", result |-> Null])
    /\ objectCount' = objectCount + 1
    /\ UNCHANGED <<pc, buffer, result, iterStart, failures, decoded, lastOp, flame>>

\* readFile of a load resolves: the rest of load() runs
LoadCompletes ==
    /\ pc = "editor"
    /\ \E k \in 1..Len(parser) :
           /\ parser[k].state = "reading"
           /\ result' = parse(buffer)
           /\ parser' = [parser EXCEPT ![k] = [state |-> "loaded", result |-> result']]
    /\ UNCHANGED <<pc, buffer, objectCount, iterStart, failures, decoded, lastOp, flame>>

\* readFile of a load rejects: load() rejects and its then() is not called
LoadFails ==
    /\ pc = "editor"
    /\ \E k \in 1..Len(parser) :
           /\ parser[k].state = "reading"
           /\ parser' = [parser EXCEPT ![k].state = "failed"]
    /\ UNCHANGED <<pc, buffer, result, objectCount, iterStart, failures, decoded, lastOp, flame>>

\* the then() of a load that resolved
ShowLoaded ==
    /\ pc = "editor"
    /\ \E k \in 1..Len(parser) :
           /\ parser[k].state = "loaded"
           /\ flame' = getHtmlForWebview(result)
           /\ parser' = [parser EXCEPT ![k].state = "shown"]
    /\ UNCHANGED <<pc, buffer, result, objectCount, iterStart, failures, decoded, lastOp>>

NextEditor == FileRewritten \/ Refresh \/ LoadCompletes \/ LoadFails \/ ShowLoaded

SpecEditor == InitEditor /\ [][NextEditor]_vars

\* no load is in flight
Settled == \A k \in 1..Len(parser) : parser[k].state \in {"shown", "failed"}

\* the loads that did not fail
Succeeded == {k \in 1..Len(parser) : parser[k].state = "shown"}

\* the result of the load requested last among those that did not fail, the
\* one the document was opened with when there is none
LatestResult ==
    IF Succeeded = {} THEN lastOp.opened
    ELSE parser[CHOOSE k \in Succeeded : \A j \in Succeeded : j <= k].result

\* C30: once every load has completed, in whatever order, the document holds
\* and the page shows the result of the load requested last; a load that
\* fails changes neither
C30_LatestRefreshWins ==
    /\ []((pc = "editor" /\ Settled)
              => /\ result = LatestResult
                 /\ flame = getHtmlForWebview(LatestResult))
    /\ [][(pc = "editor"
            /\ \E k \in 1..Len(parser) :
                   parser[k].state = "reading" /\ parser'[k].state = "failed")
              => result' = result /\ flame' = flame]_vars

====
